---- MODULE Spec2Model ----
(***************************************************************************)
(* Model of the reactive form-validation engine:                           *)
(*   - ValidationManager (validation/manager.ts): rule table, wildcard     *)
(*     expansion, dependency graph, validation cache, abortable            *)
(*     validateField runs, validateForm, validateDependentFields;          *)
(*   - useFieldWatchers (forms/useFieldWatchers.ts): per-field watcher;    *)
(*   - FormStateManager (validation/state.ts): errors/touched/validating   *)
(*     maps and the "conditionally inactive" predicate;                    *)
(*   - debounce (utils/debounce.ts): the debounced cancellable caller.     *)
(*                                                                         *)
(* A field path ('contacts.0.email') is the sequence of its dot-separated  *)
(* segments (<<"contacts","0","email">>): split('.') and join('.') are the *)
(* two directions of that representation.  JavaScript runs one handler to  *)
(* its next await without interleaving, so one action is one such stretch. *)
(***************************************************************************)
EXTENDS Integers, Sequences, FiniteSets, TLC

VARIABLES
  scn,                \* which form (initial values, rule sets) is modelled
  values,             \* FormStateManager.values: top-level key -> value
  touched,            \* FormStateManager.touched: path -> BOOLEAN
  errors,             \* FormStateManager.errors: path -> list of messages
  isValidating,       \* FormStateManager.isValidating: path -> BOOLEAN
  rules,              \* ValidationManager.rules (= FormStateManager.rules)
  hasWildcardRules,   \* ValidationManager.hasWildcardRules
  expandedRulesCache, \* ValidationManager.expandedRulesCache (<<>> is null)
  fieldDependencies,  \* ValidationManager.fieldDependencies
  validationCache,    \* ValidationManager.validationCache: path -> entry
  abortControllers,   \* ValidationManager.abortControllers: path -> run id
  runs,               \* validateField runs suspended at an await: id -> run
  tasks,              \* suspended validateForm / watcher / propagator calls
  watchPending,       \* queued watcher jobs, in queue order: [key, old value]
  validated,          \* history: path -> the value and the dependency values
                      \*   read by the last run that produced an error list
                      \*   for the path while its token was current, unless the
                      \*   path's cache entry was cleared or written by
                      \*   another run since
  outcome,            \* history: path -> the error list returned by the last
                      \*   run of the path that returned while its token was
                      \*   current (a run no newer run superseded)
  watching,           \* the watchers of useFieldWatchers are active (stopAll
                      \*   was not called)
  isSubmitting,       \* FormStateManager.isSubmitting
  submitted,          \* history: how many submit() calls went past the
                      \*   isSubmitting check, and how many times onSubmit
                      \*   was invoked
  dTimeoutId,         \* debounce: timeoutId (0 is null; else the call of the timer)
  dPendingReject,     \* debounce: pendingReject (0 is null; else the call)
  dTimers,            \* debounce: the calls whose setTimeout is armed
  dCalls,             \* debounce: the calls made, in order: [arg, st, burst]
                      \*   st: the state of the call's promise; burst (history):
                      \*   the call arrived before the timer of the call
                      \*   before it had fired
  dChecks,            \* debounce: the calls whose fn(...) is in flight
  dInvoked            \* history: the invocations of fn, in order: [call, arg]

formVars == <<scn, values, touched, errors, isValidating, rules,
              hasWildcardRules, expandedRulesCache, fieldDependencies,
              validationCache, abortControllers, runs, tasks, watchPending,
              validated, outcome, watching, isSubmitting, submitted>>
debVars == <<dTimeoutId, dPendingReject, dTimers, dCalls, dChecks, dInvoked>>
vars == <<formVars, debVars>>

----------------------------------------------------------------------------
(* Bounds of the model.                                                    *)

\* validateField runs that may be suspended at an await at the same time
MaxRuns == 2
\* elements an array field may hold
MaxItems == 2
\* calls made to one debounced function
MaxCalls == 4
\* queued watcher jobs, suspended watcher callbacks and suspended validateForm
\* calls at the same time
MaxTasks == 2
\* submit() calls that go past the isSubmitting check
MaxSubmits == 2

----------------------------------------------------------------------------
(* Generic helpers on finite maps and sequences.                           *)

Put(f, k, v) == [x \in (DOMAIN f) \cup {k} |-> IF x = k THEN v ELSE f[x]]
Del(f, K) == [x \in (DOMAIN f) \ K |-> f[x]]
Get(f, k, d) == IF k \in DOMAIN f THEN f[k] ELSE d
Range(s) == {s[i] : i \in DOMAIN s}
EmptyMap == [x \in {} |-> TRUE]

\* F(x) with x evaluated once, before F uses it
Once(x, F(_)) == CHOOSE r \in {F(y) : y \in {x}} : TRUE

RECURSIVE SeqOfSet(_)
SeqOfSet(S) == IF S = {} THEN <<>>
               ELSE LET x == CHOOSE y \in S : TRUE IN <<x>> \o SeqOfSet(S \ {x})

\* [...new Set(list)]: first occurrences, in order
RECURSIVE Dedup(_)
Dedup(s) == IF s = <<>> THEN <<>>
            ELSE LET r == Dedup(SubSeq(s, 1, Len(s) - 1))
                 IN IF s[Len(s)] \in Range(r) THEN r ELSE Append(r, s[Len(s)])

----------------------------------------------------------------------------
(* Values.  A value carries its JavaScript type so that property access    *)
(* and Array.isArray can be decided.                                       *)

Str(s) == [t |-> "str", s |-> s]
Arr(a) == [t |-> "arr", a |-> a]
Obj(o) == [t |-> "obj", o |-> o]
Undef == [t |-> "undef"]

\* index.toString() for the indices the model reaches
Digits == <<"0", "1", "2", "3", "4">>
ToStr(i) == Digits[i + 1]
\* /^\d+$/ on a segment
IsIndex(seg) == \E i \in DOMAIN Digits : Digits[i] = seg
IdxOf(seg) == (CHOOSE i \in DOMAIN Digits : Digits[i] = seg) - 1

\* current?.[key].  Indexing into a string (a character) is not modelled:
\* no path of the modelled forms descends into a scalar.
Prop(cur, key) ==
  CASE cur.t = "obj" -> IF key \in DOMAIN cur.o THEN cur.o[key] ELSE Undef
    [] cur.t = "arr" -> IF IsIndex(key) /\ IdxOf(key) < Len(cur.a)
                        THEN cur.a[IdxOf(key) + 1] ELSE Undef
    [] OTHER -> Undef

RECURSIVE Reduce(_, _, _)
Reduce(cur, path, i) ==
  IF i > Len(path) THEN cur ELSE Reduce(Prop(cur, path[i]), path, i + 1)

\* getNestedValue(obj, path); obj is the top-level map
getNestedValue(obj, path) ==
  IF path = <<>> THEN Undef ELSE Reduce(Obj(obj), path, 1)

\* fieldKey.includes('.') ? getNestedValue(values, fieldKey) : values[name]
ReadValue(vals, path) ==
  IF Len(path) > 1 THEN getNestedValue(vals, path) ELSE Get(vals, path[1], Undef)

\* a faulty comparison: any two values compare equal
deepEqualLoose(a, b) == TRUE
\* deepEqual(a, b) on strings, arrays, plain objects and undefined (the File
\* and Date branches need values the modelled forms do not hold)
RECURSIVE deepEqual(_, _)
deepEqual(a, b) ==
  IF a = b THEN TRUE
  ELSE IF a.t = "undef" \/ b.t = "undef" THEN FALSE
  ELSE IF (a.t = "str") # (b.t = "str") THEN FALSE
  ELSE IF a.t = "arr" /\ b.t = "arr"
  THEN /\ Len(a.a) = Len(b.a)
       /\ \A index \in DOMAIN a.a : deepEqual(a.a[index], b.a[index])
  ELSE IF a.t = "arr" \/ b.t = "arr" THEN FALSE
  ELSE IF a.t = "obj" /\ b.t = "obj"
  THEN /\ Cardinality(DOMAIN a.o) = Cardinality(DOMAIN b.o)
       /\ \A key \in DOMAIN a.o : deepEqual(a.o[key], Prop(b, key))
  ELSE FALSE
\* deepClone(value) on strings, arrays, plain objects and undefined
RECURSIVE deepClone(_)
deepClone(value) ==
  CASE value.t = "arr" -> Arr([i \in DOMAIN value.a |-> deepClone(value.a[i])])
    [] value.t = "obj" -> Obj([key \in DOMAIN value.o |-> deepClone(value.o[key])])
    [] OTHER -> value

\* path.includes('*')
HasStar(path) == \E i \in DOMAIN path : path[i] = "*"

\* a faulty matcher: only the first segment is compared
matchesFirstSegment(pattern, concrete) == pattern[1] = concrete[1]
\* matchesWildcard(pattern, concrete): ^seg\.seg...$ with '*' as \d+
matchesWildcard(pattern, concrete) ==
  /\ Len(pattern) = Len(concrete)
  /\ \A i \in DOMAIN pattern :
       IF pattern[i] = "*" THEN IsIndex(concrete[i]) ELSE pattern[i] = concrete[i]

\* a faulty resolution: the wildcard always stands for the first element
resolveWildcardFirst(wildcardPath, concretePath) ==
  [i \in DOMAIN wildcardPath |-> IF wildcardPath[i] = "*" THEN "0" ELSE wildcardPath[i]]
\* resolveWildcard(wildcardPath, concretePath)
resolveWildcard(wildcardPath, concretePath) ==
  IF ~HasStar(wildcardPath) THEN wildcardPath
  ELSE [i \in DOMAIN wildcardPath |->
          IF wildcardPath[i] = "*" /\ i \in DOMAIN concretePath
          THEN concretePath[i] ELSE wildcardPath[i]]

----------------------------------------------------------------------------
(* Rules.  A rule is named; the name stands for the function object, so    *)
(* identity of rules is equality of names.  A rule list is a sequence.     *)

\* what a rule returns: null, or one message
RNull == [t |-> "null"]
RMsg(m) == [t |-> "str", s |-> m]

\* a faulty conversion: every result counts as no error
resolveToNothing(result) == <<>>
\* resolveValidationResult(result)
resolveValidationResult(result) ==
  CASE result.t = "null" -> <<>>
    [] result.t = "str" -> IF result.s = "" THEN <<>> ELSE <<result.s>>
    [] result.t = "arr" -> SelectSeq(result.a, LAMBDA r : r # "")
    [] OTHER -> <<>>

\* String(v).length of the strings the model uses
StrLen(s) == CASE s = "" -> 0 [] s = "ab" -> 2 [] OTHER -> 3

\* v === null || v === undefined || v === ''
IsEmptyVal(v) == v = Undef \/ v = Str("")

\* required(): rules/basic.ts
required(v) ==
  IF IsEmptyVal(v) \/ (v.t = "arr" /\ v.a = <<>>) THEN RMsg("required") ELSE RNull

\* minLength(3): rules/basic.ts  (!v || String(v).length >= len)
minLength3(v) ==
  IF IsEmptyVal(v) THEN RNull
  ELSE IF v.t = "str" /\ StrLen(v.s) < 3 THEN RMsg("min3") ELSE RNull

\* sameAs(fieldName, 'mismatch'): rules/advanced.ts
sameAs(fieldName, v, formValues, fieldPath) ==
  LET resolved == resolveWildcard(fieldName, fieldPath)
      otherValue == getNestedValue(formValues, resolved)
  IN IF IsEmptyVal(v) /\ IsEmptyVal(otherValue) THEN RNull
     ELSE IF v = otherValue THEN RNull ELSE RMsg("mismatch")

\* requiredIf(conditionField, conditionValue, 'requiredIf'): rules/advanced.ts
requiredIf(conditionField, conditionValue, v, formValues, fieldPath) ==
  LET resolved == resolveWildcard(conditionField, fieldPath)
      shouldBeRequired == getNestedValue(formValues, resolved) = conditionValue
  IN IF ~shouldBeRequired THEN RNull
     ELSE IF IsEmptyVal(v) \/ (v.t = "arr" /\ v.a = <<>>)
          THEN RMsg("requiredIf") ELSE RNull

\* The rules of the modelled forms.
\*   asyncCheck : custom(validator) with a validator that returns a promise;
\*                the promise resolves to null or to a message, or rejects.
\*   throwsOnBad : custom(v => { if (v === 'bad') throw new Error('boom');
\*                 return true })
\*   sameAsItemA : sameAs('items.*.a', 'mismatch')
\*   sameAsCity  : sameAs('address.city', 'mismatch')
\*   remoteCheck : remote(checkFn, 'taken'), one rule instance with its own
\*                 debounced function
AsyncRules == {"asyncCheck", "remoteCheck"}

\* rule.__crossField?.dependsOn
RuleDependsOn(rule) ==
  CASE rule = "sameAsPassword" -> << <<"password">> >>
    [] rule = "sameAsItemA" -> << <<"items", "*", "a">> >>
    [] rule = "sameAsCity" -> << <<"address", "city">> >>
    [] rule = "requiredIfBusiness" -> << <<"type">> >>
    [] rule = "requiredIfItemA" -> << <<"items", "*", "a">> >>
    [] OTHER -> <<>>

\* rule.__requiredIf, as a list of at most one {conditionField, conditionValue}
RuleRequiredIf(rule) ==
  CASE rule = "requiredIfBusiness" ->
         << [conditionField |-> <<"type">>, conditionValue |-> Str("business")] >>
    [] rule = "requiredIfItemA" ->
         << [conditionField |-> <<"items", "*", "a">>, conditionValue |-> Str("x")] >>
    [] OTHER -> <<>>

\* rule(currentValue, this.values, {fieldPath}): a pending promise, the value
\* returned synchronously, or the Error thrown
RuleCall(rule, v, formValues, fieldPath) ==
  IF rule \in AsyncRules THEN [k |-> "promise"]
  ELSE IF rule = "throwsOnBad" /\ v = Str("bad") THEN [k |-> "throw", m |-> "boom"]
  ELSE [k |-> "sync",
        r |-> CASE rule = "required" -> required(v)
                [] rule = "minLength3" -> minLength3(v)
                [] rule = "sameAsPassword" ->
                     sameAs(<<"password">>, v, formValues, fieldPath)
                [] rule = "sameAsItemA" ->
                     sameAs(<<"items", "*", "a">>, v, formValues, fieldPath)
                [] rule = "sameAsCity" ->
                     sameAs(<<"address", "city">>, v, formValues, fieldPath)
                [] rule = "requiredIfBusiness" ->
                     requiredIf(<<"type">>, Str("business"), v, formValues, fieldPath)
                [] rule = "requiredIfItemA" ->
                     requiredIf(<<"items", "*", "a">>, Str("x"), v, formValues, fieldPath)
                [] OTHER -> RNull]

\* how the promise of the debounced check of remote() settles: resolved with
\* the boolean of checkFn; rejected because checkFn rejected ("rejected") or
\* because a later call superseded this one ("aborted")
Debounced == {[st |-> "resolved", isOk |-> TRUE], [st |-> "resolved", isOk |-> FALSE],
              [st |-> "rejected"], [st |-> "aborted"]}

\* a faulty remote rule: a rejection of the debounced check is not caught
remoteUncaught(v, debounced) ==
  IF IsEmptyVal(v) THEN [k |-> "resolve", r |-> RNull]
  ELSE IF debounced.st = "resolved"
  THEN [k |-> "resolve", r |-> IF debounced.isOk THEN RNull ELSE RMsg("taken")]
  ELSE [k |-> "reject", m |-> debounced.st]

\* remote(checkFn, 'taken'): rules/advanced.ts.  How the promise of the rule
\* settles for the value v when the debounced check settles as given (for an
\* empty value the check is not called)
remote(v, debounced) ==
  IF IsEmptyVal(v) THEN [k |-> "resolve", r |-> RNull]
  ELSE IF debounced.st = "resolved"
  THEN [k |-> "resolve", r |-> IF debounced.isOk THEN RNull ELSE RMsg("taken")]
  ELSE [k |-> "resolve", r |-> RNull]

\* the debounced function of debounce(fn, delay) is called with arg, up to
\* setTimeout: deb is the state of the closure (timeoutId, pendingReject),
\* the armed timers, the calls made and the invocations of fn
debouncedFn(deb, arg) ==
  LET n == Len(deb.calls) + 1
      rejected == IF deb.pendingReject # 0
                  THEN [deb.calls EXCEPT ![deb.pendingReject].st = "aborted"]
                  ELSE deb.calls
  IN [deb EXCEPT
        !.calls = Append(rejected, [arg |-> arg, st |-> "pending",
                                    burst |-> (n - 1) \in deb.timers]),
        !.timers = (@ \ {deb.timeoutId}) \cup {n},
        !.pendingReject = n,
        !.timeoutId = n]

\* how an awaited rule promise settles: resolved with null or a message, or
\* rejected with an Error whose message is "rejected"
Settlements == {[k |-> "resolve", r |-> RNull],
                [k |-> "resolve", r |-> RMsg("taken")],
                [k |-> "reject", m |-> "rejected"]}

----------------------------------------------------------------------------
(* Rule sets: a rule set is the list of the entries of the rules object,   *)
(* in key order: <<[k |-> key, r |-> rule list], ...>>.                    *)

RuleKeys(rs) == {rs[i].k : i \in DOMAIN rs}
\* key in rules
HasKey(rs, key) == \E i \in DOMAIN rs : rs[i].k = key
\* rules[key] ?? []
RulesAt(rs, key) ==
  IF HasKey(rs, key) THEN rs[CHOOSE i \in DOMAIN rs : rs[i].k = key].r ELSE <<>>

\* expanded[path] = ruleArray on a key-ordered object
AssignEntry(acc, key, ruleArray) ==
  IF \E i \in DOMAIN acc : acc[i].k = key
  THEN [i \in DOMAIN acc |-> IF acc[i].k = key
                             THEN [k |-> key, r |-> ruleArray] ELSE acc[i]]
  ELSE Append(acc, [k |-> key, r |-> ruleArray])

\* the array.forEach of expandWildcardPaths, from index i
RECURSIVE ExpandPattern(_, _, _, _, _)
ExpandPattern(acc, parts, ruleArray, len, i) ==
  IF i >= len THEN acc
  ELSE ExpandPattern(
         AssignEntry(acc,
                     [j \in DOMAIN parts |-> IF parts[j] = "*" THEN ToStr(i) ELSE parts[j]],
                     ruleArray),
         parts, ruleArray, len, i + 1)

\* expandWildcardPaths(rules, values), entries from i on
RECURSIVE ExpandFrom(_, _, _, _)
ExpandFrom(acc, rs, vals, i) ==
  IF i > Len(rs) THEN acc
  ELSE LET path == rs[i].k
           wildcardIndex == CHOOSE j \in DOMAIN path :
                              path[j] = "*" /\ \A h \in 1..(j - 1) : path[h] # "*"
           array == getNestedValue(vals, SubSeq(path, 1, wildcardIndex - 1))
       IN IF HasStar(path)
          THEN IF array.t = "arr"
               THEN ExpandFrom(ExpandPattern(acc, path, rs[i].r, Len(array.a), 0),
                               rs, vals, i + 1)
               ELSE ExpandFrom(acc, rs, vals, i + 1)
          ELSE ExpandFrom(AssignEntry(acc, path, rs[i].r), rs, vals, i + 1)

\* a faulty expansion: the patterns are kept as they are
expandNothing(rs, vals) == rs

\* expandWildcardPaths(rules, values)
expandWildcardPaths(rs, vals) == ExpandFrom(<<>>, rs, vals, 1)

\* the dependsOn list gathered from one rule list
RECURSIVE GatherDependsOn(_, _)
GatherDependsOn(fieldRules, i) ==
  IF i > Len(fieldRules) THEN <<>>
  ELSE RuleDependsOn(fieldRules[i]) \o GatherDependsOn(fieldRules, i + 1)

\* buildDependencies(), entries from i on
RECURSIVE BuildFrom(_, _)
BuildFrom(rs, i) ==
  IF i > Len(rs) THEN <<>>
  ELSE LET dependsOn == GatherDependsOn(rs[i].r, 1)
       IN (IF Len(dependsOn) > 0
           THEN << [field |-> rs[i].k, dependsOn |-> Dedup(dependsOn)] >>
           ELSE <<>>) \o BuildFrom(rs, i + 1)

buildDependencies(rs) == BuildFrom(rs, 1)

----------------------------------------------------------------------------
(* The engine's state as one record, so that a handler which calls other   *)
(* handlers (validateForm calls validateField for every field) is one      *)
(* function on it.  The fields carry the names of the variables; invoked   *)
(* and rets log the rule calls and the validateField returns of the step.  *)

St == [values |-> values, touched |-> touched, errors |-> errors,
       isValidating |-> isValidating, rules |-> rules,
       hasWildcardRules |-> hasWildcardRules,
       expandedRulesCache |-> expandedRulesCache,
       fieldDependencies |-> fieldDependencies,
       validationCache |-> validationCache,
       abortControllers |-> abortControllers, runs |-> runs,
       validated |-> validated, outcome |-> outcome,
       watching |-> watching,
       isSubmitting |-> isSubmitting, submitted |-> submitted,
       deb |-> [timeoutId |-> dTimeoutId, pendingReject |-> dPendingReject,
                timers |-> dTimers, calls |-> dCalls, checks |-> dChecks,
                invoked |-> dInvoked],
       invoked |-> <<>>, rets |-> <<>>, overflow |-> FALSE]

\* getExpandedRules(): the state with the memo filled
getExpandedRules(st) ==
  IF st.expandedRulesCache = <<>>
  THEN [st EXCEPT !.expandedRulesCache = << expandWildcardPaths(st.rules, st.values) >>]
  ELSE st
Expanded(st) == getExpandedRules(st).expandedRulesCache[1]

\* invalidateExpandedRulesCache()
invalidateExpandedRulesCache(st) == [st EXCEPT !.expandedRulesCache = <<>>]

\* the id of a new AbortController: one no suspended run holds (0 when every
\* slot of the model is taken; a run may not suspend under it)
FreshId(st) ==
  IF \E i \in 1..MaxRuns : i \notin DOMAIN st.runs
  THEN CHOOSE i \in 1..MaxRuns :
         i \notin DOMAIN st.runs /\ \A j \in 1..(i - 1) : j \in DOMAIN st.runs
  ELSE 0

\* a faulty return: the controller stays in the map
ReturnKeepToken(st_, run_, result, kind) ==
  Once(st_, LAMBDA st : Once(run_, LAMBDA run :
  LET current == Get(st.abortControllers, run.path, 0) = run.id
  IN [st EXCEPT
        !.isValidating = IF current /\ kind \in {"superseded", "done"}
                         THEN Put(@, run.path, FALSE) ELSE @,
        !.runs = Del(@, {run.id}),
        !.validated = IF kind \in {"hit", "done"}
                      THEN IF current
                           THEN Put(@, run.path, [value |-> run.value,
                                                  depsValues |-> run.depsValues])
                           ELSE Del(@, {run.path})
                      ELSE @,
        !.outcome = IF current THEN Put(@, run.path, result) ELSE @,
        !.rets = Append(@, [id |-> run.id, path |-> run.path, result |-> result,
                            kind |-> kind, current |-> current,
                            aborted |-> run.aborted, suspended |-> run.validatingAsync])]))

\* a validateField run returns: the finally block, and the logs
\*   kind: "norules" | "hit" | "superseded" | "done"
Return(st_, run_, result, kind) ==
  Once(st_, LAMBDA st : Once(run_, LAMBDA run :
  LET current == Get(st.abortControllers, run.path, 0) = run.id
  IN [st EXCEPT
        !.isValidating = IF current /\ kind \in {"superseded", "done"}
                         THEN Put(@, run.path, FALSE) ELSE @,
        !.abortControllers = IF current THEN Del(@, {run.path}) ELSE @,
        !.runs = Del(@, {run.id}),
        !.validated = IF kind \in {"hit", "done"}
                      THEN IF current
                           THEN Put(@, run.path, [value |-> run.value,
                                                  depsValues |-> run.depsValues])
                           ELSE Del(@, {run.path})
                      ELSE @,
        !.outcome = IF current THEN Put(@, run.path, result) ELSE @,
        !.rets = Append(@, [id |-> run.id, path |-> run.path, result |-> result,
                            kind |-> kind, current |-> current,
                            aborted |-> run.aborted, suspended |-> run.validatingAsync])]))

\* a faulty end of the try block: the error map is replaced by one that holds
\* the entry of this field only
CompleteAlone(st_, run_, fieldErrors) ==
  Once(st_, LAMBDA st : Once(run_, LAMBDA run :
  Return([st EXCEPT
            !.validationCache =
               Put(@, run.path,
                   [value |-> deepClone(run.value), errors |-> fieldErrors,
                    depsValues |-> IF run.hasDep THEN << deepClone(Obj(run.depsValues)).o >>
                                   ELSE <<>>,
                    rules |-> run.rules, called |-> run.called]),
            !.errors = Put(EmptyMap, run.path, fieldErrors)],
         run, fieldErrors, "done")))

\* the end of the try block: the cache entry and the error list are written
Complete(st_, run_, fieldErrors) ==
  Once(st_, LAMBDA st : Once(run_, LAMBDA run :
  Return([st EXCEPT
            !.validationCache =
               Put(@, run.path,
                   [value |-> deepClone(run.value), errors |-> fieldErrors,
                    depsValues |-> IF run.hasDep THEN << deepClone(Obj(run.depsValues)).o >>
                                   ELSE <<>>,
                    \* history: the rule list of the run that wrote the entry
                    \* and the rules it invoked, in order
                    rules |-> run.rules, called |-> run.called]),
            !.errors = Put(@, run.path, fieldErrors)],
         run, fieldErrors, "done")))

\* the for loop over fieldRules, from rule i on, up to the next await
RECURSIVE RunLoop(_, _, _)
RunLoop(st_, run0_, i) ==
  Once(st_, LAMBDA st : Once(run0_, LAMBDA run0 :
  IF i > Len(run0.rules) THEN Complete(st, run0, <<>>)
  ELSE LET maybePromise == RuleCall(run0.rules[i], run0.value, st.values, run0.path)
           run == [run0 EXCEPT !.called = Append(@, i)]
           st1 == [st EXCEPT !.invoked = Append(@, [path |-> run.path, i |-> i,
                                                   rule |-> run.rules[i]])]
       IN IF maybePromise.k = "throw"
          THEN Complete(st1, run, <<maybePromise.m>>)
          ELSE IF maybePromise.k = "promise"
          THEN LET \* remote() calls its debounced function for a non-empty value
                   calls == run.rules[i] = "remoteCheck" /\ ~IsEmptyVal(run.value)
               IN [st1 EXCEPT
                  !.errors = IF run.validatingAsync THEN @ ELSE Put(@, run.path, <<>>),
                  !.isValidating = IF run.validatingAsync THEN @
                                   ELSE Put(@, run.path, TRUE),
                  !.deb = IF calls THEN debouncedFn(@, run.value) ELSE @,
                  !.runs = Put(@, run.id,
                               [run EXCEPT !.i = i, !.validatingAsync = TRUE,
                                           !.call = IF calls THEN Len(st.deb.calls) + 1
                                                    ELSE 0]),
                  !.overflow = @ \/ run.id = 0]
          ELSE LET resolvedErrors == resolveValidationResult(maybePromise.r)
               IN IF Len(resolvedErrors) > 0
                  THEN Complete(st1, run, resolvedErrors)
                  ELSE RunLoop(st1, run, i + 1)))

\* the dependency entry validateField uses for fieldKey, as a list of at most one
FindDep(deps, fieldKey) ==
  LET exact == SelectSeq(deps, LAMBDA d : d.field = fieldKey)
      wild == SelectSeq(deps, LAMBDA d : HasStar(d.field)
                                         /\ matchesWildcard(d.field, fieldKey))
  IN IF exact # <<>> THEN <<exact[1]>>
     ELSE IF Len(fieldKey) > 1 /\ wild # <<>> THEN <<wild[1]>> ELSE <<>>

\* a faulty snapshot: no dependency value is recorded
NoDepsValues(vals, dep, fieldKey) == EmptyMap
\* depsValues of validateField
DepsValues(vals, dep, fieldKey) ==
  IF dep = <<>> THEN EmptyMap
  ELSE LET resolved(d) == IF HasStar(d) THEN resolveWildcard(d, fieldKey) ELSE d
       IN [r \in {resolved(dep[1].dependsOn[j]) : j \in DOMAIN dep[1].dependsOn} |->
             ReadValue(vals, r)]

\* a faulty cache-hit test: the cache never hits
CacheMiss(cache, fieldKey, currentValue, depsValues) == FALSE
\* the cache-hit test of validateField
CacheHit(cache, fieldKey, currentValue, depsValues) ==
  /\ fieldKey \in DOMAIN cache
  /\ deepEqual(cache[fieldKey].value, currentValue)
  /\ deepEqual(Obj(IF cache[fieldKey].depsValues = <<>> THEN EmptyMap
                   ELSE cache[fieldKey].depsValues[1]), Obj(depsValues))

\* a faulty abort: the controller is left as it is
AbortNothing(rs, id) == rs
\* controller.abort() on the controller id (0: there is none); the run that
\* holds it, if it is suspended, sees signal.aborted when it resumes
AbortRun(rs, id) ==
  IF id \in DOMAIN rs THEN [rs EXCEPT ![id].aborted = "run"] ELSE rs

\* the rule list validateField resolves for fieldKey: the expanded rules when
\* a wildcard rule exists and the path is among them, else this.rules
FieldRules(st, fieldKey) ==
  IF st.hasWildcardRules /\ HasKey(Expanded(st), fieldKey)
  THEN RulesAt(Expanded(st), fieldKey)
  ELSE RulesAt(st.rules, fieldKey)

\* validateField(name), up to its first await or its return
validateField(st0_, fieldKey) ==
  Once(st0_, LAMBDA st0 :
  LET existing == Get(st0.abortControllers, fieldKey, 0)
      id == FreshId(st0)
      stA == [st0 EXCEPT
                !.runs = AbortRun(@, existing),
                !.abortControllers = Put(@, fieldKey, id)]
  IN Once(IF stA.hasWildcardRules THEN getExpandedRules(stA) ELSE stA, LAMBDA st :
     LET fieldRules == FieldRules(st, fieldKey)
         currentValue == ReadValue(st.values, fieldKey)
         dep == FindDep(st.fieldDependencies, fieldKey)
         depsValues == DepsValues(st.values, dep, fieldKey)
     IN Once([id |-> id, path |-> fieldKey, rules |-> fieldRules, i |-> 0,
              value |-> currentValue, depsValues |-> depsValues, hasDep |-> dep # <<>>,
              validatingAsync |-> FALSE, aborted |-> "no",
              call |-> 0,         \* the call of the debounced function awaited
              called |-> <<>>],   \* history: the rules invoked so far
             LAMBDA run :
        IF Len(run.rules) = 0
        THEN Return([st EXCEPT !.errors = Put(@, fieldKey, <<>>)], run, <<>>, "norules")
        ELSE IF CacheHit(st.validationCache, fieldKey, run.value, run.depsValues)
        THEN Return([st EXCEPT !.errors = Put(@, fieldKey,
                                              st.validationCache[fieldKey].errors)],
                    run, st.validationCache[fieldKey].errors, "hit")
        ELSE RunLoop(st, run, 1))))

\* a faulty resumption: a rejection is swallowed and the loop goes on
resumeFieldSwallow(st_, id, settled) ==
  Once(st_, LAMBDA st :
  LET run == st.runs[id]
  IN IF settled.k = "reject"
     THEN RunLoop(st, run, run.i + 1)
     ELSE IF run.aborted # "no"
     THEN Return(st, run, <<>>, "superseded")
     ELSE LET resolvedErrors == resolveValidationResult(settled.r)
          IN IF Len(resolvedErrors) > 0
             THEN Complete(st, run, resolvedErrors)
             ELSE RunLoop(st, run, run.i + 1))

\* validateField after the await of rule run.i settled
resumeField(st_, id, settled) ==
  Once(st_, LAMBDA st :
  LET run == st.runs[id]
  IN IF settled.k = "reject"
     THEN Complete(st, run, <<settled.m>>)
     ELSE IF run.aborted # "no"
     THEN Return(st, run, <<>>, "superseded")
     ELSE LET resolvedErrors == resolveValidationResult(settled.r)
          IN IF Len(resolvedErrors) > 0
             THEN Complete(st, run, resolvedErrors)
             ELSE RunLoop(st, run, run.i + 1))

----------------------------------------------------------------------------
(* The other operations of ValidationManager.                              *)

\* a faulty setRules: the rules are replaced and no error entry is removed
setRulesKeepErrors(st0_, r) ==
  getExpandedRules(
    [st0_ EXCEPT !.rules = r,
                 !.hasWildcardRules = \E k \in RuleKeys(r) : HasStar(k),
                 !.expandedRulesCache = <<>>,
                 !.fieldDependencies = buildDependencies(r)])

\* setRules(r), with clearStaleErrors()
setRules(st0_, r) ==
  Once(st0_, LAMBDA st0 :
  LET st == getExpandedRules(
              [st0 EXCEPT !.rules = r,
                          !.hasWildcardRules = \E k \in RuleKeys(r) : HasStar(k),
                          !.expandedRulesCache = <<>>,
                          !.fieldDependencies = buildDependencies(r)])
      activeFields == RuleKeys(st.rules) \cup RuleKeys(Expanded(st))
  IN [st EXCEPT !.errors = Del(@, DOMAIN @ \ activeFields)])

\* the fields one dependency entry contributes to getDependentFields
DependentsOf(dep, expanded) ==
  IF HasStar(dep.field)
  THEN LET keys == SelectSeq(expanded, LAMBDA e : matchesWildcard(dep.field, e.k))
       IN [i \in DOMAIN keys |-> keys[i].k]
  ELSE <<dep.field>>

DepMatches(dep, changedField) ==
  \E j \in DOMAIN dep.dependsOn :
     \/ dep.dependsOn[j] = changedField
     \/ HasStar(dep.dependsOn[j]) /\ matchesWildcard(dep.dependsOn[j], changedField)

RECURSIVE DependentsFrom(_, _, _, _)
DependentsFrom(deps, expanded, changedField, i) ==
  IF i > Len(deps) THEN <<>>
  ELSE (IF DepMatches(deps[i], changedField)
        THEN DependentsOf(deps[i], expanded) ELSE <<>>)
       \o DependentsFrom(deps, expanded, changedField, i + 1)

\* getDependentFields(changedField); the expansion is computed (and memoized)
\* only when a matching entry is a pattern
NeedsExpansion(st, changedField) ==
  \E i \in DOMAIN st.fieldDependencies :
     DepMatches(st.fieldDependencies[i], changedField)
     /\ HasStar(st.fieldDependencies[i].field)

\* a faulty dependency lookup: no field depends on any other
noDependentFields(st, changedField) == <<>>

getDependentFields(st, changedField) ==
  DependentsFrom(st.fieldDependencies,
                 IF NeedsExpansion(st, changedField) THEN Expanded(st) ELSE <<>>,
                 changedField, 1)

\* the characters of a path segment the clearCache calls of the model use
Chars(seg) ==
  CASE seg = "item" -> <<"i", "t", "e", "m">>
    [] seg = "items" -> <<"i", "t", "e", "m", "s">>
    [] OTHER -> <<seg>>

\* the dotted string of a path, as its list of characters
RECURSIVE Dotted(_)
Dotted(path) ==
  IF path = <<>> THEN <<>>
  ELSE IF Len(path) = 1 THEN Chars(path[1])
  ELSE Chars(path[1]) \o <<".">> \o Dotted(Tail(path))

\* string.startsWith(prefix) on lists of characters
CharPrefix(prefix, string) ==
  Len(prefix) <= Len(string) /\ SubSeq(string, 1, Len(prefix)) = prefix

\* a faulty prefix test: key.startsWith(prefix), without the dot
StartsWithNoDot(key, prefix) == key # prefix /\ CharPrefix(Dotted(prefix), Dotted(key))

\* key.startsWith(prefix + '.')
StartsWith(key, prefix) ==
  Len(key) > Len(prefix) /\ SubSeq(key, 1, Len(prefix)) = prefix

\* delete this.validationCache[key] for the keys K
DropCache(st_, K) ==
  Once(st_, LAMBDA st :
  [st EXCEPT !.validationCache = Del(@, K), !.validated = Del(@, K)])

\* clearCacheExact(fieldKey)
clearCacheExact(st, fieldKey) == DropCache(st, {fieldKey})

\* clearCache(fieldKey)
clearCache(st, fieldKey) ==
  DropCache(st, {fieldKey}
                \cup {k \in DOMAIN st.validationCache \cup DOMAIN st.validated :
                        StartsWith(k, fieldKey)})

\* clearCache()
clearCacheAll(st) ==
  DropCache(st, DOMAIN st.validationCache \cup DOMAIN st.validated)

\* a faulty abortAll: the table is emptied and no controller is aborted
abortAllForget(st) == [st EXCEPT !.abortControllers = EmptyMap]

\* abortAll(): every stored controller is aborted and the table is emptied
abortAll(st_) ==
  Once(st_, LAMBDA st :
  [st EXCEPT
     !.runs = [id \in DOMAIN @ |->
                 IF \E key \in DOMAIN st.abortControllers :
                      st.abortControllers[key] = id
                 THEN [@[id] EXCEPT !.aborted = "run"] ELSE @[id]],
     !.abortControllers = EmptyMap])

\* form.dispose(): stopAll(), then validationManager.dispose(), which is
\* abortAll() and clearCache()
dispose(st) == [clearCacheAll(abortAll(st)) EXCEPT !.watching = FALSE]

\* a faulty clearArrayCache: the memoized expansion is kept
clearArrayCacheKeepMemo(st_, arrayPath) ==
  Once(st_, LAMBDA st :
  LET keysToDelete == {key \in DOMAIN st.validationCache : StartsWith(key, arrayPath)}
      st1 == DropCache(st, {arrayPath} \cup keysToDelete)
      held == {st.abortControllers[key] :
                 key \in keysToDelete \cap DOMAIN st.abortControllers}
  IN [st1 EXCEPT
        !.errors = Del(@, keysToDelete),
        !.isValidating = Del(@, keysToDelete),
        !.runs = [id \in DOMAIN @ |->
                    IF id \in held THEN [@[id] EXCEPT !.aborted = "run"] ELSE @[id]],
        !.abortControllers = Del(@, keysToDelete)])

\* a faulty clearArrayCache: only the entry of the array path is deleted
clearArrayCacheShallow(st_, arrayPath) ==
  DropCache(invalidateExpandedRulesCache(st_), {arrayPath})

\* clearArrayCache(arrayPath); keysToDelete are the keys of the cache under
\* the array path
clearArrayCache(st_, arrayPath) ==
  Once(invalidateExpandedRulesCache(st_), LAMBDA st :
  LET keysToDelete == {key \in DOMAIN st.validationCache : StartsWith(key, arrayPath)}
      st1 == DropCache(st, {arrayPath} \cup keysToDelete)
      held == {st.abortControllers[key] :
                 key \in keysToDelete \cap DOMAIN st.abortControllers}
  IN [st1 EXCEPT
        !.errors = Del(@, keysToDelete),
        !.isValidating = Del(@, keysToDelete),
        !.runs = [id \in DOMAIN @ |->
                    IF id \in held THEN [@[id] EXCEPT !.aborted = "run"] ELSE @[id]],
        !.abortControllers = Del(@, keysToDelete)])

\* fields.map(f => this.validateField(f)): each call up to its first await
RECURSIVE ValidateAll(_, _, _)
ValidateAll(st_, fields, i) ==
  Once(st_, LAMBDA st :
  IF i > Len(fields) THEN st
  ELSE ValidateAll(validateField(st, fields[i]), fields, i + 1))

\* the runs a handler has to await: those that suspended during it
NewRuns(st0, st) == DOMAIN st.runs \ DOMAIN st0.runs

\* validateForm(touched), up to its await Promise.all: the state, and the
\* suspended call
validateFormStart(st0_) ==
  Once(st0_, LAMBDA st0 :
  Once(getExpandedRules(invalidateExpandedRulesCache(st0)), LAMBDA st1 :
  Once([i \in DOMAIN Expanded(st1) |-> Expanded(st1)[i].k], LAMBDA allFields :
  LET st2 == [st1 EXCEPT !.touched =
                [p \in DOMAIN @ \cup Range(allFields) |->
                   IF p \in Range(allFields) THEN TRUE ELSE @[p]]]
  IN Once(ValidateAll(st2, allFields, 1), LAMBDA st3 :
       [st |-> st3,
        task |-> << [kind |-> "form", pc |-> "all", key |-> <<>>,
                     fields |-> allFields, await |-> NewRuns(st0, st3)] >>]))))

\* validateForm after its await: the purge of stale nested errors
validateFormPurge(st_, task) ==
  Once(st_, LAMBDA st :
  LET activeFields == RuleKeys(st.rules) \cup Range(task.fields)
  IN [st EXCEPT !.errors =
        Del(@, {key \in DOMAIN @ : Len(key) > 1 /\ key \notin activeFields})])

\* the value validateForm resolves to
validateFormResult(st) == \A key \in DOMAIN st.errors : Len(st.errors[key]) = 0

\* validateDependentFields(changedField, touched), up to its await nextTick
validateDependentFieldsStart(st0_, changedField) ==
  Once(st0_, LAMBDA st0 :
  LET dependentFields == getDependentFields(st0, changedField)
      st == IF NeedsExpansion(st0, changedField) THEN getExpandedRules(st0) ELSE st0
  IN Once(SelectSeq(dependentFields, LAMBDA f : Get(st.touched, f, FALSE)),
          LAMBDA touchedDependents :
     IF Len(touchedDependents) = 0
     THEN [st |-> st, task |-> <<>>]
     ELSE [st |-> DropCache(st, Range(touchedDependents)),
           task |-> << [kind |-> "watch", pc |-> "deps", key |-> changedField,
                        fields |-> touchedDependents, await |-> {}] >>]))

----------------------------------------------------------------------------
(* FormStateManager.                                                       *)

\* the __requiredIf metadata of a rule list
RECURSIVE RequiredIfMetas(_, _)
RequiredIfMetas(fieldRules, i) ==
  IF i > Len(fieldRules) THEN <<>>
  ELSE RuleRequiredIf(fieldRules[i]) \o RequiredIfMetas(fieldRules, i + 1)

\* isConditionallyInactive(fieldKey): the field has requiredIf rules and the
\* condition of none of them holds
isConditionallyInactive(st, fieldKey) ==
  IF ~HasKey(st.rules, fieldKey) THEN FALSE
  ELSE LET requiredIfMetas == RequiredIfMetas(RulesAt(st.rules, fieldKey), 1)
       IN IF Len(requiredIfMetas) = 0 THEN FALSE
          ELSE \A i \in DOMAIN requiredIfMetas :
                 getNestedValue(st.values, requiredIfMetas[i].conditionField)
                   # requiredIfMetas[i].conditionValue

\* the computed isValid: no field is being validated and every field that is
\* not conditionally inactive has an empty error list
isValid(st) ==
  LET hasValidating == \E key \in DOMAIN st.isValidating : st.isValidating[key]
  IN IF hasValidating THEN FALSE
     ELSE \A fieldKey \in DOMAIN st.errors :
            IF isConditionallyInactive(st, fieldKey) THEN TRUE
            ELSE Len(st.errors[fieldKey]) = 0

\* the computed hasAnyErrors
hasAnyErrors(st) ==
  \E fieldKey \in DOMAIN st.errors :
    IF isConditionallyInactive(st, fieldKey) THEN FALSE
    ELSE Len(st.errors[fieldKey]) > 0

\* form.resetState(): abortAll(), clearCache(), then stateManager.resetState()
\* with its clearNestedState() (a nested key is one with a '.')
resetState(st_) ==
  Once(clearCacheAll(abortAll(st_)), LAMBDA st :
  LET keys == {<<k>> : k \in DOMAIN st.values}
      Reset(map, v) == [key \in {q \in DOMAIN map : Len(q) = 1} \cup keys |->
                          IF key \in keys THEN v ELSE map[key]]
  IN [st EXCEPT !.errors = Reset(@, <<>>),
                !.touched = Reset(@, FALSE),
                !.isValidating = Reset(@, FALSE)])

\* form.resetErrors(): abortAll(), clearCache(), then stateManager.resetErrors(),
\* which empties every error list and marks those fields untouched
resetErrors(st_) ==
  Once(clearCacheAll(abortAll(st_)), LAMBDA st :
  [st EXCEPT !.errors = [key \in DOMAIN @ |-> <<>>],
             !.touched = [key \in DOMAIN @ \cup DOMAIN st.errors |->
                            IF key \in DOMAIN st.errors THEN FALSE ELSE @[key]]])


----------------------------------------------------------------------------
(* The watcher callback of useFieldWatchers, cut at its awaits.  A result  *)
(* is the state and the suspended call (a list of at most one task).       *)
(* markDirty only writes the dirty map, which the model does not hold.     *)

\* from "const prefix = key + '.'" to the next await.  Object.keys(touched)
\* is in insertion order; the model fixes one order of the touched keys.
watchNested(st0_, key) ==
  Once(st0_, LAMBDA st0 :
  Once(SeqOfSet({tKey \in DOMAIN st0.touched :
                   StartsWith(tKey, key) /\ st0.touched[tKey]}),
       LAMBDA touchedNestedFields :
  IF Len(touchedNestedFields) > 0
  THEN Once(ValidateAll(st0, touchedNestedFields, 1), LAMBDA st :
         [st |-> st,
          task |-> << [kind |-> "watch", pc |-> "nested", key |-> key,
                       fields |-> <<>>, await |-> NewRuns(st0, st)] >>])
  ELSE validateDependentFieldsStart(st0, key)))

\* a faulty callback: the field is revalidated whether it is touched or not
watchCallbackEager(st0_, key) ==
  [st |-> clearCacheExact(st0_, key),
   task |-> << [kind |-> "watch", pc |-> "self", key |-> key,
                fields |-> <<>>, await |-> {}] >>]
\* the callback from its start to its first await
watchCallback(st0_, key) ==
  Once(st0_, LAMBDA st0 :
  LET st == clearCacheExact(st0, key)
  IN IF Get(st.touched, key, FALSE)
     THEN [st |-> st,
           task |-> << [kind |-> "watch", pc |-> "self", key |-> key,
                        fields |-> <<>>, await |-> {}] >>]
     ELSE watchNested(st, key))

\* the behaviours of options.onSubmit: it throws, or returns a promise that
\* resolves or rejects (a handler that returns no promise is awaited like
\* one whose promise resolves)
Handlers == {"throws", "resolves", "rejects"}

\* a faulty submit(): the isSubmitting check is missing
submitStartAlways(st0_, handler) ==
  Once(validateFormStart([st0_ EXCEPT !.isSubmitting = TRUE,
                                      !.submitted.accepted = @ + 1]),
       LAMBDA r :
    [st |-> r.st,
     task |-> << [kind |-> "submit", pc |-> "validate", key |-> <<>>,
                  fields |-> r.task[1].fields, await |-> r.task[1].await,
                  handler |-> handler] >>])

\* form.submit(), up to its await validateForm(): the state and the suspended
\* call.  handler is how options.onSubmit behaves when this call invokes it.
submitStart(st0_, handler) ==
  Once(st0_, LAMBDA st0 :
  IF st0.isSubmitting THEN [st |-> st0, task |-> <<>>]
  ELSE Once(validateFormStart([st0 EXCEPT !.isSubmitting = TRUE,
                                          !.submitted.accepted = @ + 1]),
            LAMBDA r :
         [st |-> r.st,
          task |-> << [kind |-> "submit", pc |-> "validate", key |-> <<>>,
                       fields |-> r.task[1].fields, await |-> r.task[1].await,
                       handler |-> handler] >>]))

\* the finally block of submit()
submitFinally(st) == [st EXCEPT !.isSubmitting = FALSE]

\* submit() resumes after an await: after validateForm() (its purge and its
\* result belong to this stretch), after nextTick(), after onSubmit's promise
submitResume(st0_, task) ==
  Once(st0_, LAMBDA st0 :
  CASE task.pc = "validate" ->
         Once(validateFormPurge(st0, task), LAMBDA st :
           IF validateFormResult(st)
           THEN [st |-> st, task |-> << [task EXCEPT !.pc = "tick"] >>]
           ELSE [st |-> submitFinally(st), task |-> <<>>])
    [] task.pc = "tick" ->
         Once([st0 EXCEPT !.submitted.onSubmit = @ + 1], LAMBDA st :
           IF task.handler = "throws"
           THEN [st |-> submitFinally(st), task |-> <<>>]
           ELSE [st |-> st, task |-> << [task EXCEPT !.pc = "handler"] >>])
    [] task.pc = "handler" ->
         [st |-> submitFinally(st0), task |-> <<>>])

\* a suspended call resumes and runs to its next await
taskResume(st0_, task) ==
  Once(st0_, LAMBDA st0 :
  CASE task.kind = "form" ->
         [st |-> validateFormPurge(st0, task), task |-> <<>>]
    [] task.kind = "submit" -> submitResume(st0, task)
    [] task.kind = "watch" /\ task.pc = "self" ->
         Once(validateField(st0, task.key), LAMBDA st :
           [st |-> st,
            task |-> << [task EXCEPT !.pc = "selfDone", !.await = NewRuns(st0, st)] >>])
    [] task.kind = "watch" /\ task.pc = "selfDone" -> watchNested(st0, task.key)
    [] task.kind = "watch" /\ task.pc = "nested" ->
         validateDependentFieldsStart(st0, task.key)
    [] task.kind = "watch" /\ task.pc = "deps" ->
         [st |-> ValidateAll(st0, task.fields, 1), task |-> <<>>])

----------------------------------------------------------------------------
(* useArrayHelpers.  arrayPath is the path of a top-level array field.     *)

\* clearArrayNestedState(field); the dirty map is not held by the model
clearArrayNestedState(st_, field) ==
  Once(st_, LAMBDA st :
  [st EXCEPT
     !.touched = Del(@, {key \in DOMAIN @ : StartsWith(key, field)}),
     !.isValidating = Del(@, {key \in DOMAIN @ : StartsWith(key, field)})])

\* what add/remove/toggleArrayItem do after the array was changed to newArray;
\* toggle marks the field touched and always validates it
afterArrayChange(st_, arrayPath, newArray, toggle) ==
  Once([st_ EXCEPT !.values = [@ EXCEPT ![arrayPath[1]] = newArray]], LAMBDA st0 :
  Once(clearArrayNestedState(clearArrayCache(st0, arrayPath), arrayPath), LAMBDA st1 :
  Once(IF toggle THEN [st1 EXCEPT !.touched = Put(@, arrayPath, TRUE)] ELSE st1,
       LAMBDA st :
  IF Get(st.touched, arrayPath, FALSE) THEN validateField(st, arrayPath) ELSE st)))

\* currentArray.splice(index, 1)
Splice(a, index) ==
  [i \in 1..(Len(a) - 1) |-> IF i <= index THEN a[i] ELSE a[i + 1]]

\* addArrayItem(arrayPath, item)
addArrayItem(st, arrayPath, item) ==
  LET currentArray == st.values[arrayPath[1]]
  IN afterArrayChange(st, arrayPath,
                      IF currentArray.t = "arr" THEN Arr(Append(currentArray.a, item))
                      ELSE Arr(<<item>>),
                      FALSE)

\* removeArrayItem(arrayPath, index)
removeArrayItem(st, arrayPath, index) ==
  LET currentArray == st.values[arrayPath[1]]
  IN afterArrayChange(st, arrayPath,
                      IF currentArray.t = "arr" /\ index < Len(currentArray.a)
                      THEN Arr(Splice(currentArray.a, index)) ELSE currentArray,
                      FALSE)

\* toggleArrayItem(field, item) up to its await validateField(field), after
\* which it does nothing more.  index is what findIndex returned: the index
\* of the element that is the item, or -1 when the item is no element
toggleArrayItem(st, field, item, index) ==
  LET currentArray == st.values[field[1]]
  IN IF currentArray.t # "arr" THEN st
     ELSE afterArrayChange(st, field,
                           IF index >= 0 THEN Arr(Splice(currentArray.a, index))
                           ELSE Arr(Append(currentArray.a, item)),
                           TRUE)

----------------------------------------------------------------------------
(* The modelled forms.                                                     *)

EmptyItem == Obj([a |-> Str("")])
PairItem == Obj([a |-> Str(""), b |-> Str("")])

\* createForm({ initialValues })
\* an element whose b is too short for minLength(3)
ShortItem == Obj([a |-> Str(""), b |-> Str("ab")])

InitialValues(s) ==
  CASE s = "pw" -> [password |-> Str(""), confirm |-> Str("")]
    [] s = "cache" -> [password |-> Str(""), confirm |-> Str("")]
    [] s = "async" -> [username |-> Str("")]
    [] s = "arr" -> [items |-> Arr(<<EmptyItem>>)]
    [] s = "cond" -> [type |-> Str("personal"), company |-> Str("")]
    [] s = "tok" -> [items |-> Arr(<<EmptyItem>>)]
    [] s = "throw" -> [username |-> Str(""), email |-> Str("")]
    [] s = "ops" -> [items |-> Arr(<<EmptyItem>>)]
    [] s = "dep" -> [password |-> Str(""), confirm |-> Str(""), items |-> Arr(<<PairItem>>)]
    [] s = "life" -> [username |-> Str("abc")]
    [] s = "addr" -> [address |-> Obj([city |-> Str("")]), confirm |-> Str("")]
    [] s = "remote" -> [items |-> Arr(<<Obj([a |-> Str("x")]), Obj([a |-> Str("y")])>>)]
    [] s = "inactive" -> [type |-> Str("personal"), company |-> Str("ab"),
                          items |-> Arr(<<ShortItem>>)]

RulesPw == << [k |-> <<"password">>, r |-> <<"required", "minLength3">>],
              [k |-> <<"confirm">>, r |-> <<"sameAsPassword">>] >>
RulesConfirm == << [k |-> <<"confirm">>,
                    r |-> <<"required", "asyncCheck", "sameAsPassword">>] >>
RulesAsync == << [k |-> <<"username">>, r |-> <<"required", "asyncCheck">>] >>
RulesAsyncMin == << [k |-> <<"username">>, r |-> <<"asyncCheck", "minLength3">>] >>
RulesArr == << [k |-> <<"items">>, r |-> <<"required">>],
               [k |-> <<"items", "*", "a">>, r |-> <<"required">>] >>
RulesArrA == << [k |-> <<"items", "*", "a">>, r |-> <<"required">>] >>
RulesThrow == << [k |-> <<"username">>,
                   r |-> <<"required", "throwsOnBad", "asyncCheck", "minLength3">>],
                [k |-> <<"email">>, r |-> <<"required">>] >>
RulesDep == << [k |-> <<"confirm">>, r |-> <<"sameAsPassword">>],
               [k |-> <<"items", "*", "a">>, r |-> <<"required">>],
               [k |-> <<"items", "*", "b">>, r |-> <<"sameAsItemA">>] >>
RulesDepB == << [k |-> <<"items", "*", "b">>, r |-> <<"sameAsItemA">>] >>
RulesTok == << [k |-> <<"items", "*", "a">>, r |-> <<"asyncCheck">>] >>
RulesAddr == << [k |-> <<"confirm">>, r |-> <<"sameAsCity">>] >>
RulesRemote == << [k |-> <<"items", "*", "a">>, r |-> <<"remoteCheck">>] >>
RulesInactive == << [k |-> <<"company">>, r |-> <<"requiredIfBusiness", "minLength3">>],
                    [k |-> <<"items", "*", "b">>,
                     r |-> <<"requiredIfItemA", "minLength3">>] >>
RulesCond == << [k |-> <<"company">>, r |-> <<"requiredIfBusiness", "minLength3">>] >>

\* the rule sets setRules is called with
RuleSets(s) ==
  CASE s = "pw" -> {RulesPw}
    [] s = "cache" -> {RulesConfirm}
    [] s = "async" -> {RulesAsync, RulesAsyncMin}
    [] s = "arr" -> {RulesArr, RulesArrA}
    [] s = "cond" -> {RulesCond}
    [] s = "tok" -> {RulesTok}
    [] s = "throw" -> {RulesThrow}
    [] s = "ops" -> {RulesArr}
    [] s = "dep" -> {RulesDep, RulesDepB}
    [] s = "life" -> {RulesAsync}
    [] s = "addr" -> {RulesAddr}
    [] s = "remote" -> {RulesRemote}
    [] s = "inactive" -> {RulesInactive}

\* the paths validateField, touch and clearCache are called with
CallPaths(s) ==
  CASE s = "pw" -> {<<"password">>, <<"confirm">>}
    [] s = "cache" -> {<<"confirm">>}
    [] s = "async" -> {<<"username">>}
    [] s = "arr" -> {<<"items">>}
                    \cup {<<"items", ToStr(i), "a">> : i \in {0, MaxItems - 1}}
    [] s = "cond" -> {<<"company">>}
    [] s = "tok" -> {<<"items", ToStr(i), "a">> : i \in {0, MaxItems - 1}}
    [] s = "throw" -> {<<"username">>, <<"email">>}
    [] s = "dep" -> {<<"confirm">>, <<"items", ToStr(MaxItems - 1), "b">>}
    [] s = "life" -> {<<"username">>}
    [] s = "addr" -> {<<"confirm">>}
    [] s = "remote" -> {<<"items", "0", "a">>}
    [] s = "inactive" -> {<<"company">>, <<"items", "0", "b">>}
    [] s = "ops" -> {<<"items">>}
                    \cup {<<"items", ToStr(i), "a">> : i \in {0, MaxItems - 1}}

\* the assignments the user makes: [path, value]
Assignments(s, vals) ==
  CASE s = "pw" -> {[path |-> <<f>>, v |-> Str(x)] :
                      f \in {"password", "confirm"}, x \in {"", "abc"}}
    [] s = "cache" -> {[path |-> <<f>>, v |-> Str(x)] :
                         f \in {"password", "confirm"}, x \in {"", "abc"}}
    [] s = "async" -> {[path |-> <<"username">>, v |-> Str(x)] : x \in {"", "abc"}}
    [] s = "life" -> {[path |-> <<"username">>, v |-> Str(x)] : x \in {"", "abc"}}
    [] s = "addr" -> {[path |-> f, v |-> Str(x)] :
                        f \in {<<"address", "city">>, <<"confirm">>}, x \in {"", "abc"}}
    [] s = "inactive" ->
         {[path |-> <<"type">>, v |-> Str(x)] : x \in {"personal", "business"}}
         \cup {[path |-> <<"items", "0", "a">>, v |-> Str(x)] : x \in {"", "x"}}
         \cup {[path |-> <<"items", "0", "b">>, v |-> Str(x)] : x \in {"ab", "abc"}}
    [] s = "arr" ->
         {[path |-> <<"items">>, v |-> Arr(SubSeq(vals.items.a, 1, n))] :
                 n \in 0..(Len(vals.items.a) - 1)}
         \cup {[path |-> <<"items">>, v |-> Arr(Append(vals.items.a, EmptyItem))] :
                 n \in {m \in {0} : Len(vals.items.a) < MaxItems}}
    [] s = "cond" -> {[path |-> <<"type">>, v |-> Str(x)] : x \in {"personal", "business"}}
                     \cup {[path |-> <<"company">>, v |-> Str(x)] : x \in {"", "ab", "abc"}}
    [] s = "tok" -> {}
    [] s = "throw" -> {}
    [] s = "ops" -> {}
    [] s = "dep" ->
         {[path |-> <<"items">>, v |-> Arr(SubSeq(vals.items.a, 1, n))] :
                 n \in {m \in {Len(vals.items.a) - 1} : m >= 0}}
         \cup {[path |-> <<"items", ToStr(i), "a">>, v |-> Str(x)] :
                 i \in {0, MaxItems - 1} \cap 0..(Len(vals.items.a) - 1), x \in {"", "x"}}

\* obj.a.b = v on the value tree, from segment i
RECURSIVE SetIn(_, _, _, _)
SetIn(cur, path, i, v) ==
  IF i > Len(path) THEN v
  ELSE IF cur.t = "obj"
  THEN Obj([cur.o EXCEPT ![path[i]] = SetIn(@, path, i + 1, v)])
  ELSE Arr([cur.a EXCEPT ![IdxOf(path[i]) + 1] = SetIn(@, path, i + 1, v)])

AssignAt(vals, path, v) == SetIn(Obj(vals), path, 1, v).o

----------------------------------------------------------------------------
(* Actions.                                                                *)

NoTasks == [x \in {} |-> TRUE]

\* the suspended calls, with a new one added under the first free id
AddTask(tk, task) ==
  IF task = <<>> THEN tk
  ELSE Put(tk, CHOOSE i \in 1..(MaxTasks + 1) :
                 i \notin DOMAIN tk /\ \A j \in 1..(i - 1) : j \in DOMAIN tk,
           task[1])

\* a run that returned is no longer awaited
Settle(tk, rets) ==
  [t \in DOMAIN tk |-> [tk[t] EXCEPT !.await = @ \ {rets[i].id : i \in DOMAIN rets}]]

\* the step's effect on the variables: the engine state st, the suspended
\* calls tk and the queued watcher jobs wp
Commit(st_, tk_, wp) ==
  \E st \in {st_} : \E tk \in {tk_} :
  /\ ~st.overflow
  /\ DOMAIN tk \subseteq 1..MaxTasks
  /\ values' = st.values
  /\ touched' = st.touched
  /\ errors' = st.errors
  /\ isValidating' = st.isValidating
  /\ rules' = st.rules
  /\ hasWildcardRules' = st.hasWildcardRules
  /\ expandedRulesCache' = st.expandedRulesCache
  /\ fieldDependencies' = st.fieldDependencies
  /\ validationCache' = st.validationCache
  /\ abortControllers' = st.abortControllers
  /\ runs' = st.runs
  /\ validated' = st.validated
  /\ outcome' = st.outcome
  /\ watching' = st.watching
  /\ isSubmitting' = st.isSubmitting
  /\ submitted' = st.submitted
  /\ tasks' = Settle(tk, st.rets)
  \* a stopped watcher is not triggered and its queued job does not run
  /\ watchPending' = IF st.watching THEN wp ELSE <<>>
  /\ UNCHANGED scn
  \* the debounced function of a remote rule, called by the rule
  /\ Len(st.deb.calls) <= MaxCalls
  /\ dTimeoutId' = st.deb.timeoutId
  /\ dPendingReject' = st.deb.pendingReject
  /\ dTimers' = st.deb.timers
  /\ dCalls' = st.deb.calls
  /\ dChecks' = st.deb.checks
  /\ dInvoked' = st.deb.invoked

\* form.validateField(path)
UserValidateField(p) == Commit(validateField(St, p), tasks, watchPending)

\* form.touch(path)
Touch(p) ==
  Commit(validateField([St EXCEPT !.touched = Put(@, p, TRUE)], p), tasks, watchPending)

\* form.setRules(rules)
SetRules(r) == Commit(setRules(St, r), tasks, watchPending)

\* form.clearCache(path)
ClearCache(p) == Commit(clearCache(St, p), tasks, watchPending)

\* validationManager.clearCacheExact(path)
ClearCacheExact(p) == Commit(clearCacheExact(St, p), tasks, watchPending)

\* form.clearCache()
ClearCacheAll == Commit(clearCacheAll(St), tasks, watchPending)

\* the bound MaxTasks leaves room for one more job or suspended call
Room == Cardinality(DOMAIN tasks) + Len(watchPending) < MaxTasks

\* the watcher job of a key is queued
Pending(key) == \E i \in DOMAIN watchPending : watchPending[i].key = key

\* form.val.<path> = v: the value changes and the watcher job of the top-level
\* key is queued (flush: 'post') unless it is queued already; the watcher
\* remembers the value it saw when it last ran
SetValue(path, v) ==
  /\ getNestedValue(values, path) # v
  /\ getNestedValue(values, path) # Undef
  /\ Pending(path[1]) \/ Room
  /\ Commit([St EXCEPT !.values = AssignAt(values, path, v)], tasks,
            IF Pending(path[1]) THEN watchPending
            ELSE Append(watchPending, [key |-> path[1], old |-> values[path[1]]]))

\* the array of a top-level field is changed in place (push, splice): the
\* watcher job of the key is queued unless it is queued already; the deep
\* watcher then gets the same array as old and as new value
SameRef == [t |-> "same"]
Queue(key) ==
  IF Pending(key) THEN watchPending
  ELSE Append(watchPending, [key |-> key, old |-> SameRef])

\* form.addArrayItem(arrayPath, item)
AddArrayItem(arrayPath, item) ==
  /\ Len(values[arrayPath[1]].a) < MaxItems
  /\ Pending(arrayPath[1]) \/ Room
  /\ Commit(addArrayItem(St, arrayPath, item), tasks, Queue(arrayPath[1]))

\* form.removeArrayItem(arrayPath, index)
RemoveArrayItem(arrayPath, index) ==
  /\ index < Len(values[arrayPath[1]].a)
  /\ Pending(arrayPath[1]) \/ Room
  /\ Commit(removeArrayItem(St, arrayPath, index), tasks, Queue(arrayPath[1]))

\* form.toggleArrayItem(field, item): index is the position of the item in
\* the array, -1 when it is not in it
ToggleArrayItem(field, item, index) ==
  /\ index < Len(values[field[1]].a)
  /\ index = -1 => Len(values[field[1]].a) < MaxItems
  /\ Pending(field[1]) \/ Room
  /\ Commit(toggleArrayItem(St, field, item, index), tasks, Queue(field[1]))

\* form.resetState()
ResetState == Commit(resetState(St), tasks, watchPending)

\* form.resetErrors()
ResetErrors == Commit(resetErrors(St), tasks, watchPending)


\* getEmptyValue(initialValue): the empty value of the type of the initial one
getEmptyValue(initialValue) ==
  CASE initialValue.t = "str" -> Str("")
    [] initialValue.t = "arr" -> Arr(<<>>)
    [] OTHER -> Undef

\* form.clear(useInitial): abortAll(), clearCache(), then stateManager.clear()
\* which assigns every value and resets the state maps like resetState()
clear(st_, useInitial) ==
  resetState([st_ EXCEPT !.values =
     [k \in DOMAIN @ |-> IF useInitial THEN deepClone(InitialValues(scn)[k])
                         ELSE getEmptyValue(InitialValues(scn)[k])]])

\* form.reset(): abortAll(), clearCache(), then stateManager.reset() which
\* assigns the initial value of every key and resets the state maps
reset(st_) ==
  resetState([st_ EXCEPT !.values =
     [k \in DOMAIN @ |-> IF k \in DOMAIN InitialValues(scn)
                         THEN deepClone(InitialValues(scn)[k]) ELSE @[k]]])

\* the watcher jobs queued when the values become newValues: one for every key
\* whose value changed (an array or object is a new one) and has none queued
RECURSIVE QueueChanged(_, _, _)
QueueChanged(wp, keys, newValues) ==
  IF keys = {} THEN wp
  ELSE LET key == CHOOSE k \in keys : TRUE
           changed == newValues[key].t \in {"arr", "obj"} \/ newValues[key] # values[key]
           queued == \E i \in DOMAIN wp : wp[i].key = key
       IN QueueChanged(IF changed /\ ~queued
                       THEN Append(wp, [key |-> key, old |-> values[key]]) ELSE wp,
                       keys \ {key}, newValues)

\* the values are assigned as a whole by st (clear, reset)
CommitValues(st_) ==
  \E st \in {st_} : \E wp \in {QueueChanged(watchPending, DOMAIN values, st.values)} :
    /\ Cardinality(DOMAIN tasks) + Len(wp) <= MaxTasks
    /\ Commit(st, tasks, wp)

\* form.clear(useInitial)
Clear(useInitial) == CommitValues(clear(St, useInitial))

\* form.reset()
Reset == CommitValues(reset(St))

\* form.dispose()
Dispose == Commit(dispose(St), tasks, watchPending)

\* the callback of the queued watcher job of a key: Vue calls it (deep: true)
\* and it returns at once for an unchanged primitive
watchJob(st_, key, oldValue) ==
  Once(st_, LAMBDA st :
  LET newValue == st.values[key]
  IN IF newValue.t \notin {"arr", "obj"} /\ newValue = oldValue
     THEN [st |-> st, task |-> <<>>]
     ELSE watchCallback(st, <<key>>))

\* the queued jobs run one after the other, each callback to its first await
RECURSIVE FlushFrom(_, _, _, _)
FlushFrom(st_, tk_, jobs, i) ==
  Once(st_, LAMBDA st : Once(tk_, LAMBDA tk :
  IF i > Len(jobs) THEN [st |-> st, tk |-> tk]
  ELSE Once(watchJob(st, jobs[i].key, jobs[i].old), LAMBDA r :
         FlushFrom(r.st, AddTask(tk, r.task), jobs, i + 1))))

\* Vue flushes the post-flush queue: every queued watcher job runs
WatcherFlush ==
  /\ watchPending # <<>>
  /\ \E r \in {FlushFrom(St, tasks, watchPending, 1)} :
       Commit(r.st, r.tk, <<>>)

\* form.validateForm() up to its await
ValidateForm ==
  /\ Room
  /\ \E r \in {validateFormStart(St)} :
       Commit(r.st, AddTask(tasks, r.task), watchPending)

\* form.submit() up to its first await; a call made while isSubmitting is
\* true returns at once
Submit(handler) ==
  /\ isSubmitting \/ (Room /\ submitted.accepted < MaxSubmits)
  /\ \E r \in {submitStart(St, handler)} :
       Commit(r.st, AddTask(tasks, r.task), watchPending)

\* a suspended validateForm, submit or watcher call resumes: everything it
\* awaits has settled
TaskStep(t) ==
  /\ t \in DOMAIN tasks
  /\ tasks[t].await = {}
  /\ \E r \in {taskResume(St, tasks[t])} :
       Commit(r.st, AddTask(Del(tasks, {t}), r.task), watchPending)

\* the promise of the rule a run awaits settles and the run resumes
RuleSettles(id, settled) ==
  /\ id \in DOMAIN runs
  /\ Commit(resumeField(St, id, settled), tasks, watchPending)

\* the debounced check of the remote rule a run awaits settles: the promise
\* of the rule settles and the run resumes
RemoteSettles(id, debounced) ==
  /\ id \in DOMAIN runs
  /\ RuleSettles(id, remote(runs[id].value, debounced))

\* the debounced check a run awaits in remote() has settled (for an empty
\* value remote() awaits nothing): the promise of the rule resolves and the
\* run resumes
RemoteResumes(id) ==
  /\ id \in DOMAIN runs
  /\ runs[id].rules[runs[id].i] = "remoteCheck"
  /\ \E debounced \in Debounced :
       /\ runs[id].call # 0 => debounced.st = dCalls[runs[id].call].st
       /\ RemoteSettles(id, debounced)

\* createForm({ initialValues }) of the form s
FormInitWith(s, initialValues) ==
  /\ scn = s
  /\ values = initialValues
  /\ touched = EmptyMap
  /\ errors = EmptyMap
  /\ isValidating = EmptyMap
  /\ rules = <<>>
  /\ hasWildcardRules = FALSE
  /\ expandedRulesCache = <<>>
  /\ fieldDependencies = <<>>
  /\ validationCache = EmptyMap
  /\ abortControllers = EmptyMap
  /\ runs = EmptyMap
  /\ validated = EmptyMap
  /\ outcome = EmptyMap
  /\ watching = TRUE
  /\ isSubmitting = FALSE
  /\ submitted = [accepted |-> 0, onSubmit |-> 0]
  /\ tasks = NoTasks
  /\ watchPending = <<>>

FormInit(s) == FormInitWith(s, InitialValues(s))

DebIdle ==
  /\ dTimeoutId = 0
  /\ dPendingReject = 0
  /\ dTimers = {}
  /\ dCalls = <<>>
  /\ dChecks = {}
  /\ dInvoked = <<>>

\* the arguments the debounced function is called with
DebArgs == {"a", "b"}

\* the debounced function is called with arg (lines 15-37 up to setTimeout)
DCall(arg) ==
  LET n == Len(dCalls) + 1
      rejected == IF dPendingReject # 0
                  THEN [dCalls EXCEPT ![dPendingReject].st = "aborted"] ELSE dCalls
  IN /\ n <= MaxCalls
     /\ dCalls' = Append(rejected, [arg |-> arg, st |-> "pending",
                                    burst |-> (n - 1) \in dTimers])
     \* clearTimeout(timeoutId) when timeoutId is not null
     /\ dTimers' = (dTimers \ {dTimeoutId}) \cup {n}
     /\ dPendingReject' = n
     /\ dTimeoutId' = n
     /\ UNCHANGED <<dChecks, dInvoked>>
     /\ UNCHANGED formVars

\* the timer of call n fires: the callback runs up to its await fn(..._args).
\* All timers have the same delay, so they fire in the order they were armed.
DTimerFire(n) ==
  /\ n \in dTimers
  /\ \A m \in dTimers : n <= m
  /\ dTimers' = dTimers \ {n}
  /\ dPendingReject' = 0
  /\ dInvoked' = Append(dInvoked, [call |-> n, arg |-> dCalls[n].arg])
  /\ dChecks' = dChecks \cup {n}
  /\ UNCHANGED <<dTimeoutId, dCalls>>
  /\ UNCHANGED formVars

\* the promise of fn settles for call n: resolve or reject (without effect on
\* a promise that is settled already), then the finally block
DCheckSettle(n, ok) ==
  /\ n \in dChecks
  /\ dChecks' = dChecks \ {n}
  /\ dCalls' = IF dCalls[n].st = "pending"
               THEN [dCalls EXCEPT ![n].st = IF ok THEN "resolved" ELSE "rejected"]
               ELSE dCalls
  /\ dTimeoutId' = 0
  /\ UNCHANGED <<dPendingReject, dTimers, dInvoked>>
  /\ UNCHANGED formVars

\* one debounced function: calls, timer firings and completions of fn
DebounceNext ==
  \/ \E arg \in DebArgs : DCall(arg)
  \/ \E n \in dTimers : DTimerFire(n)
  \/ \E n \in dChecks, ok \in BOOLEAN : DCheckSettle(n, ok)

DebounceInit == FormInit("pw") /\ DebIdle
SpecDebounce == DebounceInit /\ [][DebounceNext]_vars

\* the same, with timers that eventually fire and a wrapped function that
\* eventually settles
SpecDebounceLive ==
  /\ DebounceInit /\ [][DebounceNext]_vars
  /\ WF_vars(\E n \in 1..MaxCalls : DTimerFire(n))
  /\ WF_vars(\E n \in 1..MaxCalls, ok \in BOOLEAN : DCheckSettle(n, ok))

\* the cache of one form: validateField, value changes and their watchers
\* (no field is touched, so a watcher only clears the field's cache entry),
\* clearCache and setRules
CacheNext ==
  \/ \E p \in CallPaths(scn) : UserValidateField(p)
  \/ \E r \in RuleSets(scn) : SetRules(r)
  \/ \E p \in CallPaths(scn) : ClearCache(p)
  \/ \E a \in Assignments(scn, values) : SetValue(a.path, a.v)
  \/ WatcherFlush
  \/ \E id \in DOMAIN runs, settled \in Settlements : RuleSettles(id, settled)

CacheInit == FormInit("cache") /\ DebIdle
SpecCache == CacheInit /\ [][CacheNext]_vars

\* one field with asynchronous rules: user calls, validateForm, the watcher
AsyncNext ==
  \/ \E p \in CallPaths(scn) : UserValidateField(p)
  \/ \E r \in RuleSets(scn) : SetRules(r)
  \/ \E a \in Assignments(scn, values) : SetValue(a.path, a.v)
  \/ WatcherFlush
  \/ ValidateForm
  \/ \E t \in DOMAIN tasks : TaskStep(t)
  \/ \E id \in DOMAIN runs, settled \in Settlements : RuleSettles(id, settled)

AsyncInit == FormInit("async") /\ DebIdle
SpecAsync == AsyncInit /\ [][AsyncNext]_vars

\* the password form: the fields are touched (each once), values change and
\* the watchers propagate; the user calls neither validateField nor
\* validateForm nor clearCache.  Vue flushes the queued watcher jobs
\* and resumes every call suspended at nextTick, each in its turn.
PropNext ==
  \/ \E r \in RuleSets(scn) : SetRules(r)
  \/ \E p \in CallPaths(scn) : ~Get(touched, p, FALSE) /\ Touch(p)
  \/ \E a \in Assignments(scn, values) : SetValue(a.path, a.v)
  \/ WatcherFlush
  \/ \E t \in DOMAIN tasks : TaskStep(t)

PropInit == FormInit("pw") /\ DebIdle
SpecProp ==
  /\ PropInit /\ [][PropNext]_vars
  /\ WF_vars(WatcherFlush)
  /\ \A t \in 1..MaxTasks : WF_vars(TaskStep(t))

\* the password form with form.resetState() among the user's operations
UntouchNext ==
  \/ PropNext
  \/ ResetState

SpecUntouch == PropInit /\ [][UntouchNext]_vars

\* a form whose field confirm must equal address.city, a field nested in the
\* top-level field address: the same operations as for the password form
AddrInit == FormInit("addr") /\ DebIdle
SpecAddr ==
  /\ AddrInit /\ [][PropNext]_vars
  /\ WF_vars(WatcherFlush)
  /\ \A t \in 1..MaxTasks : WF_vars(TaskStep(t))

\* a form with an array field under wildcard rules: validateField on the
\* array and on its first and last possible element, value changes (elements
\* appended and removed), their watchers and setRules
ArrNext ==
  \/ \E p \in CallPaths(scn) : UserValidateField(p)
  \/ \E r \in RuleSets(scn) : SetRules(r)
  \/ \E a \in Assignments(scn, values) : SetValue(a.path, a.v)
  \/ WatcherFlush

ArrInit == FormInit("arr") /\ DebIdle
SpecArr == ArrInit /\ [][ArrNext]_vars

\* a form with a conditionally required field: value changes, their watchers
\* and validateForm
CondNext ==
  \/ \E r \in RuleSets(scn) : SetRules(r)
  \/ \E a \in Assignments(scn, values) : SetValue(a.path, a.v)
  \/ WatcherFlush
  \/ ValidateForm
  \/ \E t \in DOMAIN tasks : TaskStep(t)

CondInit == FormInit("cond") /\ DebIdle
SpecCond == CondInit /\ [][CondNext]_vars

\* two fields, one under a rule list with a throwing and an asynchronous
\* rule, created with any of the values that make a different rule of the
\* list the first to fail: validateField and setRules
ThrowNext ==
  \/ \E r \in RuleSets(scn) : SetRules(r)
  \/ \E p \in CallPaths(scn) : UserValidateField(p)
  \/ \E id \in DOMAIN runs, settled \in Settlements : RuleSettles(id, settled)
  \/ \E id \in DOMAIN runs, debounced \in Debounced : RemoteSettles(id, debounced)

ThrowInit ==
  /\ \E x \in {"", "bad", "ab", "abc"}, y \in {"", "abc"} :
       FormInitWith("throw", [username |-> Str(x), email |-> Str(y)])
  /\ DebIdle
SpecThrow == ThrowInit /\ [][ThrowNext]_vars

\* the form of two fields is submitted, again and again, with any of the
\* initial values; onSubmit throws, resolves or rejects
SubmitNext ==
  \/ \E r \in RuleSets(scn) : SetRules(r)
  \/ \E handler \in Handlers : Submit(handler)
  \/ \E t \in DOMAIN tasks : TaskStep(t)
  \/ \E id \in DOMAIN runs, settled \in Settlements : RuleSettles(id, settled)

SpecSubmit == ThrowInit /\ [][SubmitNext]_vars

\* the validator of the array forms resolves to true or rejects
PassOrReject == {x \in Settlements : x.k = "reject" \/ x.r = RNull}

\* an array field under an asynchronous wildcard rule: validateField on the
\* first and last possible element, elements added and removed through the
\* array helpers, the watcher (no field is touched) and resetState
TokenNext ==
  \/ \E r \in RuleSets(scn) : SetRules(r)
  \/ \E p \in CallPaths(scn) : UserValidateField(p)
  \/ \E id \in DOMAIN runs, settled \in PassOrReject : RuleSettles(id, settled)
  \/ AddArrayItem(<<"items">>, EmptyItem)
  \/ \E i \in 0..(MaxItems - 1) : RemoveArrayItem(<<"items">>, i)
  \/ WatcherFlush
  \/ ResetState

TokenInit == FormInit("tok") /\ DebIdle
SpecToken == TokenInit /\ [][TokenNext]_vars


\* one field with an asynchronous rule and a non-empty initial value: the
\* field is touched (and so validated) and the form is cleared or reset while
\* runs are suspended; clear and reset assign the value and the watcher runs
LifeNext ==
  \/ \E r \in RuleSets(scn) : SetRules(r)
  \/ \E p \in CallPaths(scn) : Touch(p)
  \/ WatcherFlush
  \/ \E t \in DOMAIN tasks : TaskStep(t)
  \/ \E id \in DOMAIN runs, settled \in Settlements : RuleSettles(id, settled)
  \/ ResetState
  \/ \E useInitial \in BOOLEAN : Clear(useInitial)
  \/ Reset

LifeInit == FormInit("life") /\ DebIdle
SpecLife == LifeInit /\ [][LifeNext]_vars

\* the same form is disposed of: before that the field is touched, its value
\* changes and the watcher revalidates it; the value also changes afterwards
DisposeNext ==
  \/ \E r \in RuleSets(scn) : SetRules(r)
  \/ \E p \in CallPaths(scn) : watching /\ Touch(p)
  \/ \E a \in Assignments(scn, values) : SetValue(a.path, a.v)
  \/ WatcherFlush
  \/ \E t \in DOMAIN tasks : TaskStep(t)
  \/ \E id \in DOMAIN runs, settled \in Settlements : RuleSettles(id, settled)
  \/ watching /\ Dispose

SpecDispose == LifeInit /\ [][DisposeNext]_vars

\* a form with a requiredIf rule on a literal key and one on a wildcard
\* pattern: the fields are touched (and so validated), the conditions and a
\* value change, and the watchers revalidate
InactiveNext ==
  \/ \E r \in RuleSets(scn) : SetRules(r)
  \/ \E p \in CallPaths(scn) : Touch(p)
  \/ \E a \in Assignments(scn, values) : SetValue(a.path, a.v)
  \/ WatcherFlush
  \/ \E t \in DOMAIN tasks : TaskStep(t)

InactiveInit == FormInit("inactive") /\ DebIdle
SpecInactive == InactiveInit /\ [][InactiveNext]_vars

\* the items a user adds or toggles
Items == {EmptyItem, Obj([a |-> Str("x")])}

\* a form with an array field under synchronous rules on the array and on its
\* elements: the array helpers, validateField and the watcher of the array
OpsNext ==
  \/ \E r \in RuleSets(scn) : SetRules(r)
  \/ \E p \in CallPaths(scn) : UserValidateField(p)
  \/ \E item \in Items : AddArrayItem(<<"items">>, item)
  \/ \E i \in 0..(MaxItems - 1) : RemoveArrayItem(<<"items">>, i)
  \/ \E item \in Items, i \in -1..(MaxItems - 1) :
       /\ i >= 0 => i < Len(values.items.a) /\ values.items.a[i + 1] = item
       /\ ToggleArrayItem(<<"items">>, item, i)
  \/ WatcherFlush
  \/ \E t \in DOMAIN tasks : TaskStep(t)

OpsInit == FormInit("ops") /\ DebIdle
SpecOps == OpsInit /\ [][OpsNext]_vars

\* the paths the cache is cleared for: the array, an element, the fields of
\* the first and of the last element, and 'item', which the key 'items'
\* starts with
ClearPaths == {<<"item">>, <<"items">>, <<"items", "0">>}
              \cup {<<"items", ToStr(i), "a">> : i \in {0, MaxItems - 1}}

\* the form with an array field: the array and its elements are validated,
\* elements are added, and the cache is cleared for a path, for one key, as
\* a whole
ClearNext ==
  \/ \E r \in RuleSets(scn) : SetRules(r)
  \/ \E p \in CallPaths(scn) : UserValidateField(p)
  \/ \E item \in Items : AddArrayItem(<<"items">>, item)
  \/ \E p \in ClearPaths : ClearCache(p)
  \/ \E p \in ClearPaths : ClearCacheExact(p)
  \/ ClearCacheAll

SpecClear == OpsInit /\ [][ClearNext]_vars

\* a form with an array of two elements under an asynchronous wildcard rule:
\* validateForm, removeArrayItem while validateForm waits, and the watcher
PurgeNext ==
  \/ \E r \in RuleSets(scn) : SetRules(r)
  \/ ValidateForm
  \/ \E i \in 0..(MaxItems - 1) : RemoveArrayItem(<<"items">>, i)
  \/ \E id \in DOMAIN runs, settled \in Settlements : RuleSettles(id, settled)
  \/ WatcherFlush
  \/ \E t \in DOMAIN tasks : TaskStep(t)

PurgeInit == FormInitWith("tok", [items |-> Arr(<<EmptyItem, EmptyItem>>)]) /\ DebIdle
SpecPurge == PurgeInit /\ [][PurgeNext]_vars

\* a form with a literal dependent (confirm on password) and a pattern
\* dependent (items.*.b on items.*.a): setRules, touch, assignments of the
\* array (its last element dropped) and of the a of its elements,
\* addArrayItem and the watchers, which call getDependentFields
DepNext ==
  \/ \E r \in RuleSets(scn) : SetRules(r)
  \/ \E p \in CallPaths(scn) : ~Get(touched, p, FALSE) /\ Touch(p)
  \/ \E a \in Assignments(scn, values) : SetValue(a.path, a.v)
  \/ AddArrayItem(<<"items">>, PairItem)
  \/ WatcherFlush
  \/ \E t \in DOMAIN tasks : TaskStep(t)

DepInit == FormInit("dep") /\ DebIdle
SpecDep == DepInit /\ [][DepNext]_vars

\* the same form: validateForm marks the fields touched and validates them,
\* the array is assigned or grows, the value the first element's b depends on
\* changes, and the watchers revalidate and propagate
KeysNext ==
  \/ SetRules(RulesDep)
  \/ ValidateForm
  \/ \E a \in Assignments(scn, values) :
       /\ a.path \in {<<"items">>, <<"items", "0", "a">>}
       /\ SetValue(a.path, a.v)
  \/ AddArrayItem(<<"items">>, PairItem)
  \/ WatcherFlush
  \/ \E t \in DOMAIN tasks : TaskStep(t)

SpecKeys == DepInit /\ [][KeysNext]_vars

\* one field whose rule list is replaced or dropped: setRules with either
\* rule list or with no rule at all, validateField, value changes and the
\* watcher (the field is not touched, so the watcher only clears the entry)
DropNext ==
  \/ \E r \in RuleSets(scn) \cup {<<>>} : SetRules(r)
  \/ \E p \in CallPaths(scn) : UserValidateField(p)
  \/ \E a \in Assignments(scn, values) : SetValue(a.path, a.v)
  \/ WatcherFlush
  \/ \E id \in DOMAIN runs, settled \in Settlements : RuleSettles(id, settled)

SpecDrop == AsyncInit /\ [][DropNext]_vars

\* the same form with form.resetErrors() among the user's operations
FlagNext ==
  \/ DropNext
  \/ ResetErrors

SpecFlag == AsyncInit /\ [][FlagNext]_vars

\* an array of two elements under one remote rule on a wildcard pattern, so
\* that both elements share the rule instance and its debounced function:
\* validateForm, validateField on the first element, the timers of the
\* debounced function and the completions of checkFn
RemoteNext ==
  \/ \E r \in RuleSets(scn) : SetRules(r)
  \/ ValidateForm
  \/ \E p \in CallPaths(scn) : UserValidateField(p)
  \/ \E t \in DOMAIN tasks : TaskStep(t)
  \/ \E n \in dTimers : DTimerFire(n)
  \/ \E n \in dChecks, ok \in BOOLEAN : DCheckSettle(n, ok)
  \/ \E id \in DOMAIN runs : RemoteResumes(id)

RemoteInit == FormInit("remote") /\ DebIdle
SpecRemote == RemoteInit /\ [][RemoteNext]_vars

----------------------------------------------------------------------------
(* The validation cache (SpecCache).                                       *)

\* the values a dependency snapshot recorded are the current ones
SameDeps(depsValues) ==
  \A d \in DOMAIN depsValues : ReadValue(values, d) = depsValues[d]

\* a run for p produced an error list while its token was current, and since
\* then the value of p and its dependency values are what that run read, no
\* cache-clearing operation touched p and no other run wrote p's entry; p
\* has a rule list
Revalidated(p) ==
  /\ p \in DOMAIN validated
  /\ validated[p].value = ReadValue(values, p)
  /\ SameDeps(validated[p].depsValues)
  /\ FieldRules(St, p) # <<>>

\* the rules a run invoked are the first ones of its list, in order, each once
InvokedPrefix(entry) ==
  /\ entry.called = [i \in 1..Len(entry.called) |-> i]
  /\ Len(entry.called) \in 1..Len(entry.rules)

C2_ValueChangeInvalidates ==
  \A p \in CallPaths(scn) :
    (/\ FieldRules(St, p) # <<>>
     /\ \/ p \notin DOMAIN validationCache
        \/ validationCache[p].value # ReadValue(values, p))
    => LET r == validateField(St, p)
       IN /\ r.invoked # <<>>
          /\ r.invoked[1] = [path |-> p, i |-> 1, rule |-> FieldRules(St, p)[1]]

\* the value changed after a completed run and the entry is still in the
\* cache (the watcher has not run, clearCache was not called)
C2_Witness ==
  \E p \in CallPaths(scn) :
    /\ FieldRules(St, p) # <<>>
    /\ p \in DOMAIN validationCache
    /\ validationCache[p].value # ReadValue(values, p)
    /\ Pending(p[1])
    /\ validateField(St, p).invoked # <<>>

\* the paths the rules of p declare as dependencies, resolved against p
DeclaredDeps(p) ==
  LET fieldRules == FieldRules(St, p)
  IN {IF HasStar(d) THEN resolveWildcard(d, p) ELSE d :
        d \in UNION {Range(RuleDependsOn(fieldRules[j])) : j \in DOMAIN fieldRules}}

\* the dependency snapshot of the cache entry of p agrees with the form on d
DepUnchanged(p, d) ==
  /\ validationCache[p].depsValues # <<>>
  /\ d \in DOMAIN validationCache[p].depsValues[1]
  /\ validationCache[p].depsValues[1][d] = ReadValue(values, d)

\* C15: validateField returns the cached errors without invoking a rule only
\* if the current value equals the stored value snapshot and the current
\* value of every declared dependency equals the stored dependency snapshot;
\* a change of a declared dependency alone makes the next validateField run
\* the rules again.
C15_HitNeedsBothSnapshots ==
  \A p \in CallPaths(scn) :
    FieldRules(St, p) # <<>> =>
      LET r == validateField(St, p)
      IN /\ r.invoked = <<>> =>
              /\ p \in DOMAIN validationCache
              /\ validationCache[p].value = ReadValue(values, p)
              /\ \A d \in DeclaredDeps(p) : DepUnchanged(p, d)
              /\ r.rets[1].result = validationCache[p].errors
         /\ (/\ p \in DOMAIN validationCache
             /\ validationCache[p].value = ReadValue(values, p)
             /\ \E d \in DeclaredDeps(p) : ~DepUnchanged(p, d))
            => /\ r.invoked # <<>>
               /\ r.invoked[1] = [path |-> p, i |-> 1, rule |-> FieldRules(St, p)[1]]

\* the entry of confirm has the current value of confirm and an older value
\* of password, and the entry is still in the cache
C15_Witness ==
  /\ <<"confirm">> \in DOMAIN validationCache
  /\ validationCache[<<"confirm">>].value = values.confirm
  /\ DeclaredDeps(<<"confirm">>) = {<<"password">>}
  /\ ~DepUnchanged(<<"confirm">>, <<"password">>)
  /\ validateField(St, <<"confirm">>).invoked # <<>>

\* the rule calls of one step are all calls for paths marked touched
OnlyTouched(invoked) ==
  \A k \in DOMAIN invoked : Get(touched, invoked[k].path, FALSE)

\* C16: a value change never triggers validation of an untouched field: the
\* watcher of a changed field invokes no rule for the field itself, for its
\* nested paths or for its dependents unless that path is marked touched.
C16_UntouchedNotValidated ==
  /\ OnlyTouched(FlushFrom(St, tasks, watchPending, 1).st.invoked)
  /\ \A t \in DOMAIN tasks :
       (tasks[t].kind = "watch" /\ tasks[t].await = {})
         => OnlyTouched(taskResume(St, tasks[t]).st.invoked)

\* the paths of the rule calls of one step
InvokedPaths(invoked) == {invoked[k].path : k \in DOMAIN invoked}

\* the paths a suspended watcher call validates when it resumes from its
\* nextTick: it selected them before it yielded
Selected(task) ==
  IF task.kind = "watch" /\ task.pc = "self" THEN {task.key}
  ELSE IF task.kind = "watch" /\ task.pc = "deps" THEN Range(task.fields)
  ELSE {}

TouchedNow(paths) == \A p \in paths : Get(touched, p, FALSE)

\* C16 (amended): a value change triggers validation only of paths that were
\* marked touched when the watcher examined them.  The rules the watcher
\* invokes at once are rules of touched paths, the paths it selects for
\* validation after its nextTick are touched when it selects them, and when
\* it resumes it invokes rules of the selected paths only (whether or not
\* they are still touched).
C16_ValidatesWhatWasTouched ==
  /\ LET r == FlushFrom(St, tasks, watchPending, 1)
     IN /\ TouchedNow(InvokedPaths(r.st.invoked))
        /\ \A t \in DOMAIN r.tk \ DOMAIN tasks : TouchedNow(Selected(r.tk[t]))
  /\ \A t \in DOMAIN tasks :
       (tasks[t].kind = "watch" /\ tasks[t].await = {}) =>
         LET r == taskResume(St, tasks[t])
         IN /\ IF tasks[t].pc \in {"self", "deps"}
               THEN InvokedPaths(r.st.invoked) \subseteq Selected(tasks[t])
               ELSE TouchedNow(InvokedPaths(r.st.invoked))
            /\ \A k \in DOMAIN r.task : TouchedNow(Selected(r.task[k]))

\* a watcher call selected a touched path, resetState ran while the call
\* waited for its nextTick, and the call is about to invoke the rules of the
\* path, which is no longer touched
C16_Witness ==
  \E t \in DOMAIN tasks :
    /\ tasks[t].kind = "watch" /\ tasks[t].await = {}
    /\ \E p \in Selected(tasks[t]) :
         /\ ~Get(touched, p, FALSE)
         /\ p \in InvokedPaths(taskResume(St, tasks[t]).st.invoked)

----------------------------------------------------------------------------
(* The array helpers (SpecOps).                                            *)

\* the concrete keys items.0.a .. items.(n-1).a
ElemKeys(n) == {<<"items", ToStr(i), "a">> : i \in 0..(n - 1)}

\* the entries of an expansion that stand for elements of the array
ElemEntries(expanded) == {j \in DOMAIN expanded : Len(expanded[j].k) = 3}

\* the expansion has one entry for each of the n elements and no other
ExactlyElems(expanded, n) ==
  /\ {expanded[j].k : j \in ElemEntries(expanded)} = ElemKeys(n)
  /\ Cardinality(ElemEntries(expanded)) = n

\* the results of the array helpers called in the current state
AfterRemove == {removeArrayItem(St, <<"items">>, i) : i \in 0..(Len(values.items.a) - 1)}
AfterAdd == {addArrayItem(St, <<"items">>, item) :
               item \in {x \in Items : Len(values.items.a) < MaxItems}}
AfterToggle ==
  {toggleArrayItem(St, <<"items">>, values.items.a[i + 1], i) :
     i \in 0..(Len(values.items.a) - 1)}
  \cup {toggleArrayItem(St, <<"items">>, item, -1) :
          item \in {x \in Items : Len(values.items.a) < MaxItems}}

\* C17: for an array of length N under the pattern items.*.a the expansion
\* yields exactly the N keys items.0.a .. items.(N-1).a; after one element is
\* removed through removeArrayItem the recomputed expansion yields exactly
\* N-1 keys and none for the index N-1.
C17_ExpansionCardinality ==
  rules # <<>> =>
    LET N == Len(values.items.a)
    IN /\ ExactlyElems(expandWildcardPaths(rules, values), N)
       /\ \A st \in AfterRemove :
            /\ Len(st.values.items.a) = N - 1
            /\ ExactlyElems(Expanded(st), N - 1)
            /\ <<"items", ToStr(N - 1), "a">> \notin RuleKeys(Expanded(st))

\* the array has two elements, the expansion is memoized with both keys and
\* the last element has a cache entry
C17_Witness ==
  /\ Len(values.items.a) = 2
  /\ expandedRulesCache # <<>>
  /\ ExactlyElems(expandedRulesCache[1], 2)
  /\ <<"items", "1", "a">> \in DOMAIN validationCache

\* C18: after addArrayItem, removeArrayItem or toggleArrayItem on an array
\* field the validation cache holds no entry for the array path nor for any
\* path under it, and the memoized wildcard expansion is discarded.
C18_SubtreeInvalidated ==
  \A st \in AfterAdd \cup AfterRemove \cup AfterToggle :
    /\ <<"items">> \notin DOMAIN st.validationCache
    /\ \A key \in DOMAIN st.validationCache : ~StartsWith(key, <<"items">>)
    /\ st.expandedRulesCache = <<>>

\* C18 (amended): after addArrayItem, removeArrayItem or toggleArrayItem the
\* cache holds no entry for a path under the array; it holds an entry for
\* the array path only if the helper revalidated the array (the array is
\* touched, which toggleArrayItem makes it), and that entry records the array
\* as it is after the mutation; the memoized expansion is either discarded
\* or was recomputed by that revalidation from the current values.
C18_SubtreeInvalidatedOrFresh ==
  /\ \A st \in AfterAdd \cup AfterRemove \cup AfterToggle :
       /\ \A key \in DOMAIN st.validationCache : ~StartsWith(key, <<"items">>)
       /\ <<"items">> \in DOMAIN st.validationCache =>
            /\ Get(st.touched, <<"items">>, FALSE)
            /\ st.validationCache[<<"items">>].value = st.values.items
       /\ st.expandedRulesCache # <<>> =>
            /\ Get(st.touched, <<"items">>, FALSE)
            /\ st.expandedRulesCache[1] = expandWildcardPaths(st.rules, st.values)
  /\ \A st \in AfterToggle :
       /\ Get(st.touched, <<"items">>, FALSE)
       /\ RulesAt(rules, <<"items">>) # <<>> => <<"items">> \in DOMAIN st.validationCache

\* the cache holds an entry for the touched array and entries for both of its
\* elements, and the expansion is memoized
C18_Witness ==
  /\ Get(touched, <<"items">>, FALSE)
  /\ Len(values.items.a) = 2
  /\ {<<"items">>, <<"items", "0", "a">>, <<"items", "1", "a">>} \subseteq DOMAIN validationCache
  /\ expandedRulesCache # <<>>
  /\ \E st \in AfterRemove :
       /\ DOMAIN st.validationCache = {<<"items">>}
       /\ st.validationCache[<<"items">>].value # validationCache[<<"items">>].value

\* C19: after validateForm resolves the error map has no entry for a nested
\* path that is neither a rule key nor a concrete path of the expansion that
\* validateForm call computed; in particular no entry remains for an index
\* beyond the current length of the array.
C19_NoStaleNestedErrors ==
  \A t \in DOMAIN tasks :
    (tasks[t].kind = "form" /\ tasks[t].await = {}) =>
      LET st == taskResume(St, tasks[t]).st
      IN \A key \in DOMAIN st.errors :
           Len(key) > 1 =>
             /\ key \in RuleKeys(st.rules) \cup Range(tasks[t].fields)
             /\ IsIndex(key[2]) => IdxOf(key[2]) < Len(st.values.items.a)

----------------------------------------------------------------------------
(* The dependency graph (SpecDep).                                         *)

\* d lists the path p: by equality, or segment by segment with '*' for an index
ListsPath(d, p) ==
  /\ Len(d) = Len(p)
  /\ \A i \in DOMAIN d : d[i] = p[i] \/ (d[i] = "*" /\ IsIndex(p[i]))

\* the dependency edges the rules declare: dependent key, dependency path
Edges ==
  UNION {{[field |-> rules[i].k, d |-> d] :
            d \in UNION {Range(RuleDependsOn(rule)) : rule \in Range(rules[i].r)}} :
         i \in DOMAIN rules}

\* the concrete fields an edge's dependent stands for: a pattern stands for
\* its paths in the current expansion of the rules (the memoized one, which
\* an assignment of the array does not discard)
ConcreteOf(field) ==
  IF HasStar(field)
  THEN {k \in RuleKeys(Expanded(St)) : ListsPath(field, k)}
  ELSE {field}

\* the paths getDependentFields is asked about
ChangedPaths ==
  {<<"password">>, <<"confirm">>, <<"items">>, <<"items", "*", "a">>}
  \cup {<<"items", ToStr(i), x>> : i \in 0..(MaxItems - 1), x \in {"a", "b"}}

\* C20: getDependentFields(changedPath) returns exactly the concrete fields
\* whose dependency edge lists changedPath by equality or by wildcard-segment
\* match: a pattern dependent contributes each of its currently expanded
\* concrete paths, a literal dependent contributes itself.
C20_DependentsExact ==
  \A p \in ChangedPaths :
    Range(getDependentFields(St, p))
      = UNION {ConcreteOf(e.field) : e \in {x \in Edges : ListsPath(x.d, p)}}

\* the array has two elements: a change of items.0.a has the two expanded
\* paths of the pattern dependent as dependents, password has confirm
C20_Witness ==
  /\ getDependentFields(St, <<"items", "0", "a">>)
       = << <<"items", "0", "b">>, <<"items", "1", "b">> >>
  /\ getDependentFields(St, <<"password">>) = << <<"confirm">> >>
  /\ getDependentFields(St, <<"items", "0", "b">>) = <<>>

\* the paths of the b and of the a of the element at index i
ItemB(i) == <<"items", ToStr(i), "b">>
ItemA(i) == <<"items", ToStr(i), "a">>

\* the indices of the array whose b is under the pattern rule with the
\* pattern dependency items.*.a
DependentIndices ==
  {i \in 0..(Len(values.items.a) - 1) : "sameAsItemA" \in Range(FieldRules(St, ItemB(i)))}

\* the engine state after form.val.items[j].a = v
WithItemA(j, v) == [St EXCEPT !.values = AssignAt(values, ItemA(j), v)]

\* C22: for a field validated through a wildcard rule each pattern dependency
\* is resolved to the index of the field's own path: the dependency snapshot
\* of items.i.b holds the value at items.i.a and no other, so a change of
\* items.j.a with j # i causes neither a cache miss nor another error list
\* for items.i.b.
C22_SiblingIndex ==
  \A i \in DependentIndices :
    /\ ItemB(i) \in DOMAIN validationCache =>
         /\ validationCache[ItemB(i)].depsValues # <<>>
         /\ DOMAIN validationCache[ItemB(i)].depsValues[1] = {ItemA(i)}
    /\ LET st == validateField(St, ItemB(i))
       IN /\ DOMAIN st.validationCache[ItemB(i)].depsValues[1] = {ItemA(i)}
          /\ st.validationCache[ItemB(i)].depsValues[1][ItemA(i)] = ReadValue(values, ItemA(i))
          /\ \A j \in (0..(Len(values.items.a) - 1)) \ {i}, v \in {Str(""), Str("x")} :
               LET sj == validateField(WithItemA(j, v), ItemB(i))
               IN /\ (st.invoked = <<>>) = (sj.invoked = <<>>)
                  /\ sj.errors[ItemB(i)] = st.errors[ItemB(i)]
                  /\ sj.validationCache[ItemB(i)] = st.validationCache[ItemB(i)]

\* the last of two elements has a cache entry for its b, recorded while its a
\* differs from the a of the first element, and the entry still hits
C22_Witness ==
  /\ Len(values.items.a) = 2
  /\ 1 \in DependentIndices
  /\ ItemB(1) \in DOMAIN validationCache
  /\ ReadValue(values, ItemA(0)) # ReadValue(values, ItemA(1))
  /\ validateField(St, ItemB(1)).invoked = <<>>
  /\ validateField(WithItemA(0, ReadValue(values, ItemA(1))), ItemB(1)).invoked = <<>>

----------------------------------------------------------------------------
(* Supersession of validateField runs (SpecAsync).                         *)

\* the suspended runs a newer validateField call of the same path superseded
Superseded == {id \in DOMAIN runs : runs[id].aborted = "run"}

\* a run of the path is suspended, or holds the path's token
InFlight(p) == p \in DOMAIN abortControllers \/ \E id \in DOMAIN runs : runs[id].path = p

\* C3: of two validateField calls of one path, the second started before the
\* first resolved, the first resolves to [] and writes neither the error map
\* nor the validating map; once both have settled, the error list, the
\* validating flag and the cache entry of the path are those the second call
\* produced.
C3_SupersessionCorrect ==
  /\ \A id \in Superseded, settled \in Settlements :
       LET r == resumeField(St, id, settled)
       IN /\ r.rets[1].result = <<>>
          /\ r.errors = errors
          /\ r.isValidating = isValidating
          /\ ~InFlight(runs[id].path) => r.validationCache = validationCache
  /\ \A p \in DOMAIN outcome :
       ~InFlight(p) => /\ p \in DOMAIN errors
                       /\ errors[p] = outcome[p]
                       /\ ~Get(isValidating, p, FALSE)

\* C9: when the promise of validateForm settles, the error entry of every
\* field of the expanded rule set is the outcome of the field's last-started
\* run that no newer run superseded.
C9_FormSettlesOnFinalErrors ==
  \A t \in DOMAIN tasks :
    (tasks[t].kind = "form" /\ tasks[t].await = {}) =>
      \A f \in Range(tasks[t].fields) :
        /\ f \notin DOMAIN abortControllers
        /\ f \in DOMAIN outcome
        /\ f \in DOMAIN errors
        /\ errors[f] = outcome[f]

\* C10: a run that resumes after its await and finds that a newer run of its
\* path has started returns [] and leaves the cache entry, the error list and
\* the validating flag of the path as they are, whether the awaited rule
\* resolved or rejected.
C10_SupersededWritesNothing ==
  \A id \in Superseded :
    \A k \in {"resolve", "reject"} :
      \A settled \in {x \in Settlements : x.k = k} :
        LET r == resumeField(St, id, settled)
            p == runs[id].path
        IN /\ r.rets[1].result = <<>>
           /\ r.rets[1].kind = "superseded"
           /\ (p \in DOMAIN r.validationCache) = (p \in DOMAIN validationCache)
           /\ p \in DOMAIN validationCache => r.validationCache[p] = validationCache[p]
           /\ (p \in DOMAIN r.errors) = (p \in DOMAIN errors)
           /\ p \in DOMAIN errors => r.errors[p] = errors[p]
           /\ Get(r.isValidating, p, FALSE) = Get(isValidating, p, FALSE)

----------------------------------------------------------------------------
(* Propagation to dependent fields (SpecProp).                             *)

Confirm == <<"confirm">>
Mismatch == values.password # values.confirm

\* the password and confirm were the same when the watchers last ran, and
\* since then the password alone has changed
PasswordChanged ==
  /\ \E i \in DOMAIN watchPending :
       watchPending[i] = [key |-> "password", old |-> values.confirm]
  /\ ~Pending("confirm")

\* C4: with confirm validated by sameAs('password') and touched, once the
\* password alone has changed from the value confirm matches to one it does
\* not match, and the user calls neither validateField nor validateForm
\* nor clearCache, the error list of confirm eventually is the mismatch
\* message (unless the two values are made to match again first).
C4_DependencyPropagation ==
  (/\ rules = RulesPw
   /\ Get(touched, Confirm, FALSE)
   /\ PasswordChanged
   /\ Mismatch)
  ~> (Get(errors, Confirm, <<>>) = <<"mismatch">> \/ ~Mismatch)

\* the watcher of password has reached the revalidation of its touched
\* dependent confirm, whose cache entry it dropped, and that revalidation
\* finds the mismatch
C4_Witness ==
  \E t \in DOMAIN tasks :
    /\ tasks[t].pc = "deps"
    /\ tasks[t].key = <<"password">>
    /\ tasks[t].fields = <<Confirm>>
    /\ Mismatch
    /\ Get(errors, Confirm, <<>>) = <<>>
    /\ validateField(St, Confirm).errors[Confirm] = <<"mismatch">>

----------------------------------------------------------------------------
(* The debounced caller (SpecDebounce).                                    *)

\* the calls fn was invoked for
InvokedCalls == {dInvoked[i].call : i \in DOMAIN dInvoked}

\* C5: in a sequence of calls each of which arrives before the timer of the
\* call before it has fired, fn is invoked at most once and only with the
\* arguments of the last call; the promise of every earlier call rejects
\* with the AbortError.
C5_BurstGuarantee ==
  /\ \A n \in DOMAIN dCalls :
       (n + 1 \in DOMAIN dCalls /\ dCalls[n + 1].burst) =>
          /\ n \notin InvokedCalls
          /\ dCalls[n].st = "aborted"
  /\ \A i, j \in DOMAIN dInvoked :
       dInvoked[i].call = dInvoked[j].call => i = j
  /\ \A i \in DOMAIN dInvoked : dInvoked[i].arg = dCalls[dInvoked[i].call].arg

\* C6: fn is never invoked for a call whose promise was rejected with the
\* AbortError, however calls, timer firings and completions of fn interleave.
C6_SupersededNeverExecutes ==
  \A n \in DOMAIN dCalls : dCalls[n].st = "aborted" => n \notin InvokedCalls

----------------------------------------------------------------------------
(* Cancellation tokens (SpecToken).                                        *)

\* the suspended runs of a path whose controller was not aborted
Live(p) == {id \in DOMAIN runs : runs[id].path = p /\ runs[id].aborted = "no"}

\* C11: in every reachable state, each path has at most one validateField
\* run that is in flight and not cancelled, and the controller of that run
\* is the one the token table holds for the path.
C11_OneLiveToken ==
  \A id \in DOMAIN runs :
    runs[id].aborted = "no" =>
      /\ Live(runs[id].path) = {id}
      /\ runs[id].path \in DOMAIN abortControllers
      /\ abortControllers[runs[id].path] = id

\* a path has a cancelled run and a live run in flight at the same time
C11_Witness ==
  \E id \in DOMAIN runs :
    /\ runs[id].aborted = "no"
    /\ abortControllers[runs[id].path] = id
    /\ \E other \in DOMAIN runs :
         runs[other].path = runs[id].path /\ runs[other].aborted # "no"

----------------------------------------------------------------------------
(* The rule loop of validateField (SpecThrow).                             *)

\* the messages a rule of the modelled forms can fail with
Messages(rule) ==
  CASE rule = "required" -> {"required"}
    [] rule = "minLength3" -> {"min3"}
    [] rule = "throwsOnBad" -> {"boom"}
    [] rule = "asyncCheck" -> {"taken", "rejected"}
    [] rule = "sameAsPassword" -> {"mismatch"}
    [] rule = "sameAsItemA" -> {"mismatch"}
    [] rule = "requiredIfBusiness" -> {"requiredIf"}

\* the rule calls of one step are calls of consecutive rules of the list,
\* from rule first on
Consecutive(invoked, fieldRules, p, first) ==
  \A k \in DOMAIN invoked :
    invoked[k] = [path |-> p, i |-> first + k - 1, rule |-> fieldRules[first + k - 1]]

\* a rule that returns synchronously returned null for the value v
YieldedNothing(rule, v, p) ==
  rule \notin AsyncRules => RuleCall(rule, v, values, p) = [k |-> "sync", r |-> RNull]

\* C12: within one validateField run on a cache miss the rules are invoked
\* strictly in list order, and the invocation stops at the first rule that
\* yields a non-empty result (returned, resolved or thrown): no rule after it
\* is invoked and the final error list holds only that rule's messages.
C12_RulesInOrder ==
  /\ \A p \in CallPaths(scn) :
       Consecutive(validateField(St, p).invoked, FieldRules(St, p), p, 1)
  /\ \A id \in DOMAIN runs :
       /\ runs[id].called = [i \in 1..runs[id].i |-> i]
       /\ \A j \in 1..(runs[id].i - 1) :
            YieldedNothing(runs[id].rules[j], runs[id].value, runs[id].path)
       /\ \A settled \in Settlements :
            Consecutive(resumeField(St, id, settled).invoked, runs[id].rules,
                        runs[id].path, runs[id].i + 1)
  /\ \A p \in DOMAIN validationCache :
       LET e == validationCache[p]
           n == Len(e.called)
       IN /\ e.called = [i \in 1..n |-> i]
          /\ n \in 1..Len(e.rules)
          /\ \A j \in 1..(n - 1) : YieldedNothing(e.rules[j], e.value, p)
          /\ IF e.errors = <<>>
             THEN n = Len(e.rules) /\ YieldedNothing(e.rules[n], e.value, p)
             ELSE Len(e.errors) = 1 /\ e.errors[1] \in Messages(e.rules[n])

\* a run went through three rules of a list of four and stopped at the third,
\* whose promise resolved to a message; another stopped at a rule that threw
C12_Witness ==
  \E p \in DOMAIN validationCache :
    /\ Len(validationCache[p].rules) = 4
    /\ validationCache[p].called = <<1, 2, 3>>
    /\ validationCache[p].errors = <<"taken">>

\* C13: a rule that throws, synchronously or by rejecting its promise, does
\* not make validateField reject: the call returns exactly one message for
\* the field, the remaining rules of the field are not invoked, and the
\* error list, the cache entry and the validating flag of every other field
\* stay as they are.
OthersUntouched(st, p) ==
  \A q \in (DOMAIN errors \cup DOMAIN st.errors \cup DOMAIN validationCache
            \cup DOMAIN st.validationCache \cup DOMAIN isValidating
            \cup DOMAIN st.isValidating) \ {p} :
    /\ (q \in DOMAIN errors) = (q \in DOMAIN st.errors)
    /\ q \in DOMAIN errors => st.errors[q] = errors[q]
    /\ (q \in DOMAIN validationCache) = (q \in DOMAIN st.validationCache)
    /\ q \in DOMAIN validationCache => st.validationCache[q] = validationCache[q]
    /\ (q \in DOMAIN isValidating) = (q \in DOMAIN st.isValidating)
    /\ q \in DOMAIN isValidating => st.isValidating[q] = isValidating[q]

\* the rule validateField(p) would stop at throws
ThrowsNow(p) ==
  LET inv == validateField(St, p).invoked
  IN /\ inv # <<>>
     /\ RuleCall(inv[Len(inv)].rule, ReadValue(values, p), values, p).k = "throw"

C13_ThrowIsOneError ==
  /\ \A p \in CallPaths(scn) :
       ThrowsNow(p) =>
         LET st == validateField(St, p)
         IN /\ Len(st.rets) = 1
            /\ st.rets[1].result = <<"boom">>
            /\ st.errors[p] = <<"boom">>
            /\ Len(st.invoked) < Len(FieldRules(St, p))
            /\ OthersUntouched(st, p)
  /\ \A id \in DOMAIN runs :
       LET st == resumeField(St, id, [k |-> "reject", m |-> "rejected"])
           p == runs[id].path
       IN /\ Len(st.rets) = 1
          /\ st.rets[1].result = <<"rejected">>
          /\ st.errors[p] = <<"rejected">>
          /\ st.invoked = <<>>
          /\ OthersUntouched(st, p)

\* a run of one field waits for a promise that may reject, with rules left
\* after the awaited one, while the other field has errors and a cache entry
C13_Witness ==
  \E id \in DOMAIN runs :
    /\ runs[id].path = <<"username">>
    /\ runs[id].i < Len(runs[id].rules)
    /\ <<"email">> \in DOMAIN validationCache
    /\ Get(errors, <<"email">>, <<>>) # <<>>

\* a rule of the field is about to throw while the other field has errors
C13_WitnessSync ==
  /\ ThrowsNow(<<"username">>)
  /\ Get(errors, <<"email">>, <<>>) # <<>>

\* the validating flag of path p in the engine state st
Flag(st, p) == Get(st.isValidating, p, FALSE)

\* the returns of one step clear the flag exactly when the returning run
\* holds the current token: st0 is the state before the step, st the one after
ClearedIffCurrent(st0, st) ==
  \A k \in DOMAIN st.rets :
    LET ret == st.rets[k]
    IN IF ret.current
       THEN ~Flag(st, ret.path)
       ELSE Flag(st, ret.path) = Flag(st0, ret.path)

\* C14: the validating flag of a path is set to true only by a run that
\* reaches its first pending rule result, and at the end of a run the flag is
\* cleared if and only if the run's token is still the current one of the path.
C14_FlagDiscipline ==
  /\ \A p \in CallPaths(scn) :
       LET st == validateField(St, p)
       IN /\ (Flag(st, p) /\ ~Flag(St, p)) =>
               \E id \in DOMAIN st.runs \ DOMAIN runs :
                 st.runs[id].path = p /\ st.runs[id].validatingAsync
          /\ ClearedIffCurrent(St, st)
  /\ \A id \in DOMAIN runs, settled \in Settlements :
       LET st == resumeField(St, id, settled)
       IN /\ \A p \in CallPaths(scn) : Flag(st, p) => Flag(St, p)
          /\ ClearedIffCurrent(St, st)

\* C21: validateField(A) changes only the state of A: for every path B other
\* than A the error list, the validating flag and the cache entry of B are
\* after a validateField(A) run (passing, failing, throwing or superseded)
\* what they were before it, at the call and at every resumption of the run.
C21_OnlyOwnField ==
  /\ \A p \in CallPaths(scn) : OthersUntouched(validateField(St, p), p)
  /\ \A id \in DOMAIN runs, settled \in Settlements :
       OthersUntouched(resumeField(St, id, settled), runs[id].path)

\* the other field has errors, a cache entry and a run in flight (its flag is
\* set) while validateField of this field is about to fail on a rule
C21_Witness ==
  /\ Get(errors, <<"email">>, <<>>) # <<>>
  /\ <<"email">> \in DOMAIN validationCache
  /\ \E id \in DOMAIN runs : runs[id].path = <<"username">> /\ runs[id].aborted = "no"
  /\ Get(isValidating, <<"username">>, FALSE)
  /\ validateField(St, <<"email">>).rets[1].result # <<>>
  /\ \E id \in DOMAIN runs :
       resumeField(St, id, [k |-> "resolve", r |-> RMsg("taken")]).errors[<<"username">>]
         = <<"taken">>

----------------------------------------------------------------------------
(* setRules and stale errors (SpecArr).                                    *)

\* the concrete paths a pattern stands for: the '*' replaced by every index
\* of the array the pattern's prefix names
ConcretePaths(pattern, vals) ==
  LET star == CHOOSE j \in DOMAIN pattern : pattern[j] = "*"
      array == getNestedValue(vals, SubSeq(pattern, 1, star - 1))
  IN IF array.t # "arr" THEN {}
     ELSE {[j \in DOMAIN pattern |-> IF j = star THEN ToStr(i) ELSE pattern[j]] :
             i \in 0..(Len(array.a) - 1)}

\* key is a key of newRules, or a concrete path of one of its patterns
Covered(newRules, vals, key) ==
  \/ key \in RuleKeys(newRules)
  \/ \E pattern \in RuleKeys(newRules) :
       HasStar(pattern) /\ key \in ConcretePaths(pattern, vals)

\* C7: right after setRules(newRules) the error map holds no entry of a key
\* that is neither a key of newRules nor a concrete path of the expansion of
\* newRules against the current values, and the entries of the keys still
\* covered are as they were.
C7_StaleRulePurge ==
  \A newRules \in RuleSets(scn) :
    LET after == setRules(St, newRules).errors
    IN /\ \A key \in DOMAIN after : Covered(newRules, values, key)
       /\ \A key \in DOMAIN errors :
            Covered(newRules, values, key) =>
              key \in DOMAIN after /\ after[key] = errors[key]
       /\ DOMAIN after \subseteq DOMAIN errors

\* setRules is about to remove the entry of a key the new rules do not cover
\* and to keep a non-empty entry of a key they cover
C7_Witness ==
  \E newRules \in RuleSets(scn) :
    LET after == setRules(St, newRules).errors
    IN /\ \E key \in DOMAIN errors : key \notin DOMAIN after /\ errors[key] # <<>>
       /\ \E key \in DOMAIN after : after[key] # <<>>

----------------------------------------------------------------------------
(* validateForm and conditionally inactive fields (SpecCond).              *)

\* C8: validateForm resolves to true exactly when, at that moment, the error
\* list of every field that is not conditionally inactive is empty; an
\* inactive field with errors does not make it resolve to false.
C8_FormIgnoresInactive ==
  \A t \in DOMAIN tasks :
    (tasks[t].kind = "form" /\ tasks[t].await = {}) =>
      LET st == taskResume(St, tasks[t]).st
      IN validateFormResult(st)
           = \A key \in DOMAIN st.errors :
               isConditionallyInactive(st, key) \/ st.errors[key] = <<>>

----------------------------------------------------------------------------
(* clear, reset and resetState while validations are in flight (SpecLife). *)

\* the states clear(), clear(true), reset() and resetState() lead to
AfterDiscard == {clear(St, FALSE), clear(St, TRUE), reset(St), resetState(St)}

\* the settlements in which the awaited rule resolves (to no error or to a
\* message)
Resolutions == {settled \in Settlements : settled.k = "resolve"}

\* the suspended run id resumes in st with a resolved rule and writes nothing:
\* it returns no error, and the error map, the cache and the flags stay
ResumesSilently(st, id) ==
  \A settled \in Resolutions :
    LET after == resumeField(st, id, settled)
    IN /\ after.rets = << [id |-> id, path |-> st.runs[id].path, result |-> <<>>,
                           kind |-> "superseded", current |-> FALSE,
                           aborted |-> "run", suspended |-> st.runs[id].validatingAsync] >>
       /\ after.invoked = <<>>
       /\ after.errors = st.errors
       /\ after.validationCache = st.validationCache
       /\ after.isValidating = st.isValidating
       /\ after.runs = Del(st.runs, {id})

\* C23: clear(), reset() and resetState() called while an asynchronous
\* validation is in flight discard it: right after the call the field has no
\* error and its validating flag is false, and when the awaited rule of any
\* run that was in flight then resolves (to a message or to no error), the run
\* returns no error and writes nothing, so the field still has no error from it
\* and its flag is still false.  The same holds in every later state for a
\* run whose controller was aborted: its resolution changes neither the error
\* map nor the cache nor a flag.
C23_ResetDiscardsInFlight ==
  /\ \A st \in AfterDiscard :
       /\ st.abortControllers = EmptyMap
       /\ st.validationCache = EmptyMap
       /\ \A id \in DOMAIN st.runs :
            /\ st.runs[id].aborted # "no"
            /\ Get(st.errors, st.runs[id].path, <<>>) = <<>>
            /\ ~Flag(st, st.runs[id].path)
            /\ ResumesSilently(st, id)
            /\ \A settled \in Resolutions :
                 LET after == resumeField(st, id, settled)
                 IN /\ Get(after.errors, st.runs[id].path, <<>>) = <<>>
                    /\ ~Flag(after, st.runs[id].path)
                    /\ \A other \in DOMAIN after.runs :
                         ResumesSilently([after EXCEPT !.rets = <<>>], other)
  /\ \A id \in DOMAIN runs : runs[id].aborted # "no" => ResumesSilently(St, id)

\* a touched field with a run suspended at its asynchronous rule, its flag
\* set, the current token held by the run; the rule is about to resolve
\* to 'taken', and after resetState() that resolution writes no error
C23_Witness ==
  /\ \E id \in DOMAIN runs :
       /\ runs[id].path = <<"username">>
       /\ runs[id].aborted = "no"
       /\ Get(abortControllers, <<"username">>, 0) = id
       /\ resumeField(St, id, [k |-> "resolve", r |-> RMsg("taken")]).errors[<<"username">>]
            = <<"taken">>
       /\ Get(resumeField(resetState(St), id, [k |-> "resolve", r |-> RMsg("taken")]).errors,
              <<"username">>, <<>>) = <<>>
  /\ Flag(St, <<"username">>)
  /\ Get(touched, <<"username">>, FALSE)

\* a run discarded by an earlier clear, reset or resetState is still
\* suspended: no token is stored, the field is untouched again and its flag is
\* false
C23_WitnessAfter ==
  /\ \E id \in DOMAIN runs : runs[id].aborted # "no"
  /\ abortControllers = EmptyMap
  /\ ~Flag(St, <<"username">>)
  /\ ~Get(touched, <<"username">>, FALSE)
  /\ Get(errors, <<"username">>, <<>>) = <<>>

----------------------------------------------------------------------------
(* submit (SpecSubmit).                                                    *)

\* the suspended submit() calls
Submitting == {t \in DOMAIN tasks : tasks[t].kind = "submit"}

\* C24: while a submit() is in progress isSubmitting is true and any further
\* submit() call returns at once: it validates nothing, invokes no rule and
\* no onSubmit and changes no state.  Each submit() that went past the check
\* invokes onSubmit at most once, and isSubmitting is false again as soon as
\* that submit has settled, whether validation failed, onSubmit threw, or
\* its promise resolved or rejected; at most one submit is in progress.
C24_SingleSubmit ==
  /\ isSubmitting =>
       \A handler \in Handlers : submitStart(St, handler) = [st |-> St, task |-> <<>>]
  /\ isSubmitting = (Submitting # {})
  /\ Cardinality(Submitting) <= 1
  /\ submitted.onSubmit
       + Cardinality({t \in Submitting : tasks[t].pc \in {"validate", "tick"}})
       <= submitted.accepted
  /\ \A t \in Submitting :
       tasks[t].await = {} =>
         LET r == taskResume(St, tasks[t])
         IN /\ r.st.isSubmitting = (r.task # <<>>)
            /\ r.st.submitted.onSubmit - submitted.onSubmit
                 = IF tasks[t].pc = "tick" THEN 1 ELSE 0
            /\ tasks[t].pc = "validate" /\ ~validateFormResult(validateFormPurge(St, tasks[t]))
                 => r.task = <<>>

\* a second submit is in progress and waits for the promise of onSubmit, which
\* will reject; the first one was accepted and has settled; a further call
\* is refused
C24_Witness ==
  /\ isSubmitting
  /\ submitted = [accepted |-> 2, onSubmit |-> 2]
  /\ \E t \in Submitting : tasks[t].pc = "handler" /\ tasks[t].handler = "rejects"
  /\ submitStart(St, "resolves").task = <<>>

\* two submits were accepted and have settled: the validation of one of them
\* failed, so that onSubmit ran once, and isSubmitting is false
C24_WitnessFailed ==
  /\ ~isSubmitting
  /\ submitted = [accepted |-> 2, onSubmit |-> 1]
  /\ Get(errors, <<"username">>, <<>>) # <<>>

\* a submit whose onSubmit is about to throw: the step clears isSubmitting
C24_WitnessThrows ==
  \E t \in Submitting :
    /\ tasks[t].pc = "tick" /\ tasks[t].handler = "throws"
    /\ ~taskResume(St, tasks[t]).st.isSubmitting

----------------------------------------------------------------------------
(* The remote rule (SpecThrow: the asynchronous rule of username can be    *)
(* remote(checkFn, 'taken'); minLength3 follows it).                       *)

\* the ways the debounced check fails
Failures == {debounced \in Debounced : debounced.st # "resolved"}

\* C25: when the debounced check of the remote rule rejects, for whatever
\* reason (checkFn rejected, or a later call superseded this one), the promise
\* of the rule resolves to null, which the engine takes as no error: the run
\* that awaited the rule goes on with the next rule exactly as after a
\* check that resolved to true, and the error list it returns and records
\* (error map and cache entry) holds no message of the remote rule; it is
\* empty when no later rule fails.
C25_RemoteFailureIsNoError ==
  \A id \in DOMAIN runs, debounced \in Failures :
    LET run == runs[id]
        settled == remote(run.value, debounced)
        st == resumeField(St, id, settled)
        ret == st.rets[Len(st.rets)]
        later == {j \in (run.i + 1)..Len(run.rules) :
                    RuleCall(run.rules[j], run.value, values, run.path)
                      \notin {[k |-> "sync", r |-> RNull]}}
    IN /\ settled = [k |-> "resolve", r |-> RNull]
       /\ resolveValidationResult(settled.r) = <<>>
       /\ st = resumeField(St, id, remote(run.value, [st |-> "resolved", isOk |-> TRUE]))
       /\ run.aborted = "no" =>
            /\ run.i < Len(run.rules) =>
                 st.invoked # <<>> /\ st.invoked[1].i = run.i + 1
            /\ id \notin DOMAIN st.runs =>
                 /\ ret.id = id /\ ret.kind = "done"
                 /\ "taken" \notin Range(ret.result)
                 /\ st.errors[run.path] = ret.result
                 /\ st.validationCache[run.path].errors = ret.result
                 /\ later = {} => ret.result = <<>>

\* a run of username waits for the remote check with a value that the rule
\* after it rejects, and another with a value that passes every later rule
C25_Witness ==
  \E id \in DOMAIN runs :
    /\ runs[id].aborted = "no"
    /\ runs[id].rules[runs[id].i] = "asyncCheck"
    /\ runs[id].value = Str("abc")
    /\ runs[id].i < Len(runs[id].rules)
    /\ resumeField(St, id, remote(runs[id].value, [st |-> "rejected"])).errors[runs[id].path]
         = <<>>
    /\ resumeField(St, id, remote(runs[id].value, [st |-> "resolved", isOk |-> FALSE]))
         .errors[runs[id].path] = <<"taken">>

\* the same with a value that the rule after the remote one rejects
C25_WitnessLater ==
  \E id \in DOMAIN runs :
    /\ runs[id].aborted = "no"
    /\ runs[id].value = Str("ab")
    /\ resumeField(St, id, remote(runs[id].value, [st |-> "aborted"])).errors[runs[id].path]
         # <<>>

----------------------------------------------------------------------------
(* touch and the validation cache (SpecLife).                              *)

\* C26: marking a field as touched invalidates its cache entry: the
\* validation that touch(field) starts invokes a rule of the field whenever
\* the field has rules, also when the value and the dependencies are what
\* they were at the last validation.
C26_TouchInvokesRules ==
  \A p \in CallPaths(scn) :
    LET st == validateField([St EXCEPT !.touched = Put(@, p, TRUE)], p)
    IN FieldRules(getExpandedRules(St), p) # <<>> =>
         \E k \in DOMAIN st.invoked : st.invoked[k].path = p

----------------------------------------------------------------------------
(* The keys of the per-field state (SpecKeys).                             *)

\* the keys of the validation cache, the error map, the touched map and the
\* validating map of the engine state st
StateKeys(st) ==
  DOMAIN st.validationCache \cup DOMAIN st.errors \cup DOMAIN st.touched
    \cup DOMAIN st.isValidating

\* C27: no key of the validation cache, of the error map, of the touched map
\* or of the validating map has a '*' segment, whatever sequence of setRules,
\* validateForm, watcher revalidation, dependent propagation and array
\* helper calls led to the state (touch is called with concrete paths); nor
\* has the path of a stored token or of a suspended run.
C27_NoWildcardKeys ==
  /\ \A key \in StateKeys(St) : ~HasStar(key)
  /\ \A key \in DOMAIN abortControllers : ~HasStar(key)
  /\ \A id \in DOMAIN runs : ~HasStar(runs[id].path)

\* wildcard rules are set, validateForm has marked the fields of two elements
\* touched and validated them: nested keys are in every map but the
\* validating one, which holds keys of synchronous runs never
C27_Witness ==
  /\ hasWildcardRules
  /\ Len(values.items.a) = 2
  /\ \A i \in {0, 1} :
       /\ ItemB(i) \in DOMAIN validationCache
       /\ ItemB(i) \in DOMAIN errors
       /\ Get(touched, ItemB(i), FALSE)
  /\ \E key \in DOMAIN errors : Len(key) = 3 /\ errors[key] # <<>>

----------------------------------------------------------------------------
(* dispose (SpecDispose).                                                  *)

\* the runs that were in flight when dispose() aborted every controller
\* (the form starts no validation of its own after dispose)
InFlightAtDispose == {id \in DOMAIN runs : runs[id].aborted # "no"}

\* C28: after dispose() no watcher job is queued or run, so that a value
\* change invokes no rule; every validation that was in flight at dispose
\* time ends, however its awaited rule settles, without invoking a rule and
\* without writing errors; and the validation cache is empty.
C28_DisposedIsQuiet ==
  ~watching =>
    /\ watchPending = <<>>
    /\ validationCache = EmptyMap
    /\ \A id \in InFlightAtDispose, settled \in Settlements :
         LET st == resumeField(St, id, settled)
         IN st.invoked = <<>> /\ st.errors = errors /\ st.validationCache = EmptyMap

----------------------------------------------------------------------------
(* isValid, hasAnyErrors and conditionally inactive fields (SpecInactive). *)

\* the rules that apply to the path key: those of its key, or those of the
\* pattern that covers it
RulesOf(key) == FieldRules(getExpandedRules(St), key)

\* the field key has requiredIf rules and the condition of each of them,
\* taken at the element of key, is false now
InactiveNow(key) ==
  LET metas == RequiredIfMetas(RulesOf(key), 1)
  IN /\ metas # <<>>
     /\ \A i \in DOMAIN metas :
          getNestedValue(values, resolveWildcard(metas[i].conditionField, key))
            # metas[i].conditionValue

\* the engine state with the error list of every such field emptied
WithoutInactiveErrors ==
  [St EXCEPT !.errors = [key \in DOMAIN @ |-> IF InactiveNow(key) THEN <<>> ELSE @[key]]]

\* C29: a field all of whose requiredIf conditions are false now, be its key
\* a rule key or a concrete path covered by a wildcard rule only, does not
\* count in isValid and hasAnyErrors: both have the value they would have
\* with the error list of every such field empty.
C29_InactiveFieldsIgnored ==
  /\ isValid(St) = isValid(WithoutInactiveErrors)
  /\ hasAnyErrors(St) = hasAnyErrors(WithoutInactiveErrors)

\* the same for the fields whose key is a rule key
C29_LiteralInactiveIgnored ==
  LET literal == [St EXCEPT !.errors =
                    [key \in DOMAIN @ |->
                       IF HasKey(rules, key) /\ InactiveNow(key) THEN <<>> ELSE @[key]]]
  IN /\ isValid(St) = isValid(literal)
     /\ hasAnyErrors(St) = hasAnyErrors(literal)

\* company is inactive and has the error of minLength(3), and no other field
\* has an error: the form counts as valid
C29_Witness ==
  /\ InactiveNow(<<"company">>)
  /\ Get(errors, <<"company">>, <<>>) # <<>>
  /\ isValid(St) /\ ~hasAnyErrors(St)

----------------------------------------------------------------------------
(* clearCacheExact, clearCache(path) and clearCache() (SpecClear).         *)

\* the cache entries of st are those of the current cache under the keys K
CacheIs(st, K) ==
  /\ DOMAIN st.validationCache = K
  /\ \A key \in K : st.validationCache[key] = validationCache[key]

\* st differs from the current state in nothing but the cache
OnlyCacheChanged(st) ==
  /\ st.errors = errors /\ st.touched = touched /\ st.isValidating = isValidating
  /\ st.values = values /\ st.rules = rules /\ st.runs = runs
  /\ st.abortControllers = abortControllers
  /\ st.invoked = <<>>

\* C30: clearCacheExact(path) removes the entry whose key is exactly path and
\* no other; clearCache(path) removes that entry and every entry whose key,
\* as a dotted string, starts with path + '.', and leaves every other entry as
\* it is, also one whose key starts with path without the dot; clearCache()
\* removes every entry.  None of them changes the error, touched or
\* validating map.
C30_ClearCacheFrame ==
  /\ \A path \in ClearPaths :
       /\ CacheIs(clearCacheExact(St, path), DOMAIN validationCache \ {path})
       /\ OnlyCacheChanged(clearCacheExact(St, path))
       /\ CacheIs(clearCache(St, path),
                  {key \in DOMAIN validationCache :
                     /\ key # path
                     /\ ~CharPrefix(Dotted(path) \o <<".">>, Dotted(key))})
       /\ OnlyCacheChanged(clearCache(St, path))
       /\ \A key \in DOMAIN validationCache :
            (key # path /\ CharPrefix(Dotted(path), Dotted(key))
               /\ Dotted(key)[Len(Dotted(path)) + 1] # ".")
              => key \in DOMAIN clearCache(St, path).validationCache
  /\ clearCacheAll(St).validationCache = EmptyMap
  /\ OnlyCacheChanged(clearCacheAll(St))

\* the cache holds the entry of the array and those of two elements, and the
\* array has an error: clearCache('items.0') removes one entry, clearCache of
\* 'items' all three, clearCache('item') none, clearCacheExact('items') one
C30_Witness ==
  /\ DOMAIN validationCache = {<<"items">>, <<"items", "0", "a">>, <<"items", "1", "a">>}
  /\ \E key \in DOMAIN errors : errors[key] # <<>>
  /\ DOMAIN clearCache(St, <<"items", "0">>).validationCache
       = {<<"items">>, <<"items", "1", "a">>}
  /\ clearCache(St, <<"items">>).validationCache = EmptyMap
  /\ clearCache(St, <<"item">>).validationCache = validationCache
  /\ DOMAIN clearCacheExact(St, <<"items">>).validationCache
       = {<<"items", "0", "a">>, <<"items", "1", "a">>}

----------------------------------------------------------------------------
(* Fields without rules (SpecDrop, SpecFlag).                              *)

\* the field has no effective rule list
NoRules(p) == Len(FieldRules(St, p)) = 0

\* C31: validateField on a path with no effective rule list sets the error
\* list of the path to empty, returns [], invokes no rule, writes no cache
\* entry and leaves no token for the path in the token table; this holds also
\* while an older run of the path is suspended.
C31_NoRulesClearsField ==
  \A p \in CallPaths(scn) :
    NoRules(p) =>
      LET after == validateField(St, p)
      IN /\ p \in DOMAIN after.errors /\ after.errors[p] = <<>>
         /\ Len(after.rets) = 1
         /\ after.rets[1].path = p /\ after.rets[1].result = <<>>
         /\ after.invoked = <<>>
         /\ after.validationCache = validationCache
         /\ p \notin DOMAIN after.abortControllers
         /\ DOMAIN after.runs = DOMAIN runs

\* the rules were dropped while a run of username was suspended, and
\* validateField was called again: the run is aborted, the path has no token,
\* its error list is empty and nothing is cached
C31_Witness ==
  /\ NoRules(<<"username">>)
  /\ \E id \in DOMAIN runs : runs[id].path = <<"username">> /\ runs[id].aborted = "run"
  /\ <<"username">> \notin DOMAIN abortControllers
  /\ Get(errors, <<"username">>, <<"none">>) = <<>>
  /\ validationCache = EmptyMap

\* a validateField run of the path is suspended
Running(p) == \E id \in DOMAIN runs : runs[id].path = p

\* C32: the validating flag is never left stuck: whenever no validateField
\* run of a path is in flight, the validating flag of the path is false.
C32_FlagNeverStuck ==
  \A p \in DOMAIN isValidating : ~Running(p) => ~isValidating[p]

----------------------------------------------------------------------------
(* Every debounced call settles (SpecDebounceLive).                        *)

\* the promise of call n is neither resolved nor rejected
Unsettled(n) == n \in DOMAIN dCalls /\ dCalls[n].st = "pending"

\* C33: with timers that eventually fire and a wrapped function that
\* eventually settles, the promise of every call to the debounced function is
\* eventually resolved or rejected, however later calls interleave with
\* timer firings and completions.
C33_EveryCallSettles ==
  \A n \in 1..MaxCalls : Unsettled(n) ~> ~Unsettled(n)

----------------------------------------------------------------------------
(* validateForm and unfinished runs (SpecAsync).                           *)

\* C34: validateForm does not resolve to true while a validateField run that
\* was not superseded is in flight for a field it validated, also when its
\* own run of the field was superseded by a run of the user or of a watcher.
C34_NoSuccessOverUnfinishedWork ==
  \A t \in DOMAIN tasks :
    (tasks[t].kind = "form" /\ tasks[t].await = {}
       /\ validateFormResult(validateFormPurge(St, tasks[t])))
    => \A p \in Range(tasks[t].fields) : Live(p) = {}

----------------------------------------------------------------------------
(* The cache and the rules that filled it (SpecDrop).                      *)

\* the cache entry of the path was written under the current rule list of the
\* path and is valid for the current value
CachedUnderCurrentRules(p) ==
  /\ p \in DOMAIN validationCache
  /\ validationCache[p].rules = FieldRules(St, p)
  /\ CacheHit(validationCache, p, ReadValue(values, p),
              DepsValues(values, FindDep(fieldDependencies, p), p))

\* C35: after setRules has replaced the rule list of a field whose value and
\* dependencies are unchanged by a different, non-empty one, the next
\* validateField of the field invokes the new rule list: it does not return
\* the error list cached under the previous one.
C35_CacheFollowsRules ==
  \A p \in CallPaths(scn), r \in RuleSets(scn) :
    (CachedUnderCurrentRules(p) /\ RulesAt(r, p) # FieldRules(St, p)
       /\ RulesAt(r, p) # <<>>)
    => LET after == validateField(setRules(St, r), p)
       IN /\ after.invoked # <<>>
          /\ \A i \in DOMAIN after.rets : after.rets[i].kind # "hit"

\* C38: once setRules has dropped every rule covering a field, no
\* validateField run, also none that was in flight when setRules was called,
\* writes a non-empty error list for the field until rules covering it are
\* set again: a field without rules has no error.
C38_NoErrorsWithoutRules ==
  \A p \in DOMAIN errors : NoRules(p) => errors[p] = <<>>

----------------------------------------------------------------------------
(* Remote rules and their debounced check (SpecRemote).                    *)

\* the debounced check the run awaits was cancelled by a later call
Cancelled(id) ==
  /\ runs[id].call # 0
  /\ dCalls[runs[id].call].st = "aborted"

\* C36: when the debounced check of a remote rule is cancelled by a later
\* call to the same rule instance, also by one made for another field that
\* shares the rule, the run whose check was cancelled writes no error list
\* and no cache entry for its field.
C36_CancelledIsNoVerdict ==
  \A id \in DOMAIN runs :
    Cancelled(id) =>
      LET after == resumeField(St, id, remote(runs[id].value, [st |-> "aborted"]))
      IN /\ after.errors = errors
         /\ after.validationCache = validationCache

----------------------------------------------------------------------------
(* Runs in flight for elements of a changed array (SpecToken).             *)

\* C37: after removeArrayItem on an array, every validateField run that was
\* in flight for a path under the array, whether or not the path had a cache
\* entry, resolves without writing an error list or a cache entry for the
\* path.
C37_NothingLandsOnRemoved ==
  \A id \in DOMAIN runs, index \in 0..(MaxItems - 1), settled \in PassOrReject :
    (StartsWith(runs[id].path, <<"items">>) /\ index < Len(values.items.a)) =>
      LET removed == removeArrayItem(St, <<"items">>, index)
          after == resumeField([removed EXCEPT !.rets = <<>>, !.invoked = <<>>],
                               id, settled)
      IN /\ after.errors = removed.errors
         /\ runs[id].path \notin DOMAIN after.validationCache

----------------------------------------------------------------------------
(* Propagation from a nested dependency path (SpecAddr).                   *)

MismatchCity == values.address.o.city # values.confirm

\* address.city and confirm were the same when the watchers last ran, and
\* since then address.city alone has changed
CityChanged ==
  /\ \E i \in DOMAIN watchPending :
       watchPending[i] = [key |-> "address", old |-> Obj([city |-> values.confirm])]
  /\ ~Pending("confirm")

\* C39: with confirm validated by sameAs('address.city') and touched, once
\* address.city alone has changed from the value confirm matches to one it
\* does not match, confirm is eventually revalidated: its error list
\* eventually is the mismatch message (unless the two values are made to
\* match again first).
C39_NestedDependencyPropagation ==
  (/\ rules = RulesAddr
   /\ Get(touched, Confirm, FALSE)
   /\ CityChanged
   /\ MismatchCity)
  ~> (Get(errors, Confirm, <<>>) = <<"mismatch">> \/ ~MismatchCity)

====
